---- MODULE Spec2Model ----
(***************************************************************************)
(* Repository analyzer (editor extension): the analyzeRepository command,  *)
(* analyze(), RepoManager.getRepository / cloneRepository /                *)
(* pullLatestChanges.  Every await of the source is one step; the outcome  *)
(* of each call to the version-control tool, the file system or the host   *)
(* editor is chosen by the environment.                                    *)
(***************************************************************************)
EXTENDS Integers, Sequences, FiniteSets, TLC

\* ---------------------------------------------------------------- bounds
MaxRuns == 2        \* command invocations followed (one re-invocation)
NumFiles == 2       \* source files a run may select for scanning
MaxCommit == 2      \* commits are 0..MaxCommit; the remote may be ahead
MaxDiffSize == 5    \* file segments + hunks + hunk body lines of a diff
NumModules == 3     \* names a dependency map may mention
MaxFileLines == 3   \* lines of a scanned file
MaxTextLines == 9   \* lines of a text whose nesting is analysed
MaxFindings == 2    \* findings one security check makes in a file
MaxUrlLen == 3      \* parts of the text typed into the input box
MaxLongLines == 33  \* lines of a text holding a long function

\* thresholds of analyzeComplexity
LongLimit == 30
NestLimit == 4

Runs == 1..MaxRuns
Files == 1..NumFiles
Commits == 0..MaxCommit

\* ------------------------------------------------------- program values
\* categories of simple-git's StatusResult that list uncommitted changes
ChangeKinds == {"modified", "created", "deleted", "renamed", "not_added"}
\* the two places a working copy can live: workspacePath/repoName and the
\* directory picked in the 'Select Clone Location' dialog
Locs == {"default", "new"}
\* showQuickPick items, plus undefined when the pick is dismissed
Choices == {"Clone Here", "Clone in New Location", "Cancel", "dismissed"}

\* Error messages are sequences of parts; wrapping prepends the prefix.
NoErr == <<>>
Sentinel == <<"WORKSPACE_SWITCHED">>
ToolErr == <<"tool error">>
ManualErr == <<"Could not safely merge changes. Please resolve conflicts manually.">>
CancelErr == <<"Operation cancelled by user">>
NoDirErr == <<"No directory selected">>
InvalidUrlErr == <<"Invalid repository URL">>
PullPrefix == "Failed to pull latest changes: "
ClonePrefix == "Failed to clone repository: "
Wrap(prefix, e) == <<prefix>> \o e

Range(s) == {s[i] : i \in 1..Len(s)}
Min(S) == CHOOSE x \in S : \A y \in S : x <= y

VARIABLES
  \* environment
  workspace,    \* "none" | "other" | "match": vscode.workspace.workspaceFolders
  wsLoc,        \* location of the workspace folder named like the repository
  dir,          \* Locs -> "absent" | "plain" | "repo"
  changes,      \* non-empty status categories of the working copy
  head,         \* commit HEAD points to
  remoteHead,   \* commit of the remote tracking branch
  stashEntry,   \* a stash entry made by pullLatestChanges exists
  onOrig,       \* the branch current at the start of the pull is checked out
  tempExists,   \* a temp-* branch made by the pull exists
  \* command handler
  run, cmd, errorShown, reportOpened, reinvoked, escaped,
  \* analyze
  an, anErr, anFailAt, toScan, todo, scanned, archRan,
  syncFrom,     \* HEAD before the sync of an existing working copy, or -1
  visual,       \* pairs of commits a visual diff was attempted for
  \* getRepository
  gr, grErr, repoPath, choice, dialogNone, currentHead, updErr,
  sentinelRaised, fsOps, diffShown,
  \* cloneRepository
  cl, clErr, clCaller,
  \* pullLatestChanges
  pl, plErr, plCaller, initialStatus, plCurrentHead, plOps,
  \* parseDiff
  segs,         \* the file segments of the diff git printed
  cwdAtRepo,    \* the extension host's working directory is the repository
  differences,  \* what parseDiff returned
  pd,           \* "off" | "build" | "parsed"
  \* findCircularDependencies
  depMap,       \* the dependency map analyzeDependencies has built
  circular,     \* what findCircularDependencies returned
  fc,           \* "off" | "build" | "found"
  \* checkSecrets
  fileContent,  \* the lines of the file handed to the security analyzer
  issues,       \* the issues checkSecrets pushed
  sc,           \* "off" | "build" | "scanned"
  \* analyzeComplexity
  cxInput,      \* the lines the analysed text is drawn from
  cxMax,        \* the largest number of lines of the text
  cx,           \* "off" | "loop" | "done"
  lineIdx,      \* i, the index of the next line
  nestingLevel, maxNestingLevel, functionStart, functionLines,
  suggestions,  \* the suggestions pushed
  about,        \* per suggestion, the 1-based line it is about (0: none)
  depth,        \* the brace depth of the text read so far
  maxDepth,     \* the largest brace depth of the text read so far
  saCount,      \* per security check, the number of findings it makes
  saTask,       \* per security check, how far its call has got
  saIssues,     \* the issues array shared by the checks of one analyzeFile
  sa,           \* "off" | "calls" | "await" | "done"
  urlInput,     \* the text in the input box, as a sequence of parts
  urlMsg,       \* the validation message the input box shows ("null": none)
  urlEntered,   \* Enter was pressed on the text as it stands
  urlBox,       \* "off" | "open" | "accepted" | "dismissed"
  urlStarted,   \* analyze(repoUrl) has been called
  wkMap,        \* the dependency map handed to findCircularDependencies
  wkTodo,       \* the modules the loop of findCircularDependencies has left
  wkStack,      \* the frames of isCircular, innermost last
  wkRet,        \* what the call that just ended returned ("none": running)
  wkCircular,   \* the set findCircularDependencies is filling
  wk,           \* "off" | "loop" | "done"
  gdFrom, gdTo, \* the commits getDiff is asked to compare
  gdText,       \* diffText of getDiff's first git.diff ("none": not run)
  gdRet,        \* the text getDiff returned ("none": nothing returned)
  gdFails,      \* the steps of this call that threw
  gdView,       \* "none" | "visual" | "text": the editor getDiff opened
  gdTemp,       \* .git/OLD_VERSION and .git/NEW_VERSION exist
  gdTimer,      \* the cleanup timer is pending
  gd,           \* "off", or the step getDiff is at, or "ret" | "thrown"
  imSources,    \* per source file, the files its import statements refer to
  imMap,        \* the dependency map analyzeDependencies builds
  imResult,     \* result.dependencies: per module its circular flag
  im            \* "off" | "build" | "done"

envVars == <<workspace, wsLoc, dir>>
gitVars == <<changes, head, remoteHead, stashEntry>>
cmdVars == <<run, cmd, errorShown, reportOpened, reinvoked, escaped>>
anVars == <<an, anErr, anFailAt, toScan, todo, scanned, archRan, syncFrom, visual>>
grVars == <<gr, grErr, repoPath, choice, dialogNone, currentHead, updErr,
            sentinelRaised, fsOps, diffShown>>
clVars == <<cl, clErr, clCaller>>
plVars == <<pl, plErr, plCaller, initialStatus, plCurrentHead, plOps,
            onOrig, tempExists>>
mainVars == <<envVars, gitVars, cmdVars, anVars, grVars, clVars, plVars>>
diffVars == <<segs, cwdAtRepo, differences, pd>>
depVars == <<depMap, circular, fc>>
secVars == <<fileContent, issues, sc>>
cxVars == <<cxInput, cxMax, cx, lineIdx, nestingLevel, maxNestingLevel,
            functionStart, functionLines, suggestions, about, depth,
            maxDepth>>
saVars == <<saCount, saTask, saIssues, sa>>
urlVars == <<urlInput, urlMsg, urlEntered, urlBox, urlStarted>>
wkVars == <<wkMap, wkTodo, wkStack, wkRet, wkCircular, wk>>
gdVars == <<gdFrom, gdTo, gdText, gdRet, gdFails, gdView, gdTemp, gdTimer, gd>>
imVars == <<imSources, imMap, imResult, im>>
fnVars == <<diffVars, depVars, secVars, cxVars, saVars, urlVars, wkVars
           , gdVars, imVars>>
vars == <<mainVars, fnVars>>

\* ------------------------------------------------------------------ Init
MainInit ==
  /\ workspace \in {"none", "other", "match"}
  /\ wsLoc = "default"
  /\ dir \in [Locs -> {"absent", "plain", "repo"}]
  /\ dir["new"] # "repo"
  /\ workspace = "match" => dir["default"] # "absent"
  /\ changes \in SUBSET ChangeKinds
  /\ dir["default"] # "repo" => changes = {}
  /\ head = 0
  /\ remoteHead \in Commits
  /\ stashEntry = FALSE /\ onOrig = TRUE /\ tempExists = FALSE
  /\ run = 1 /\ cmd = "input"
  /\ errorShown = [r \in Runs |-> 0]
  /\ reportOpened = [r \in Runs |-> 0]
  /\ reinvoked = [r \in Runs |-> FALSE]
  /\ escaped = [r \in Runs |-> "none"]
  /\ an = "idle" /\ anErr = NoErr /\ anFailAt = "none"
  /\ toScan = {} /\ todo = {} /\ scanned = [f \in Files |-> "none"]
  /\ archRan = FALSE /\ syncFrom = -1 /\ visual = {}
  /\ gr = "idle" /\ grErr = NoErr /\ repoPath = "default"
  /\ choice = "none" /\ dialogNone = FALSE /\ currentHead = 0
  /\ updErr = "none" /\ sentinelRaised = [r \in Runs |-> FALSE]
  /\ fsOps = <<>> /\ diffShown = FALSE
  /\ cl = "idle" /\ clErr = NoErr /\ clCaller = "none"
  /\ pl = "idle" /\ plErr = NoErr /\ plCaller = "none"
  /\ initialStatus = {} /\ plCurrentHead = 0 /\ plOps = <<>>

\* No diff has been handed to parseDiff.
DiffOff == segs = <<>> /\ cwdAtRepo = TRUE /\ differences = <<>> /\ pd = "off"

\* No dependency map has been built.
DepsOff == depMap = <<>> /\ circular = {} /\ fc = "off"

\* No file has been handed to the security analyzer.
SecOff == fileContent = <<>> /\ issues = <<>> /\ sc = "off"

\* analyzeComplexity has not been called.
CxOff ==
  /\ cxInput = {} /\ cxMax = 0 /\ cx = "off" /\ lineIdx = 0
  /\ nestingLevel = 0 /\ maxNestingLevel = 0
  /\ functionStart = -1 /\ functionLines = 0
  /\ suggestions = <<>> /\ about = <<>> /\ depth = 0 /\ maxDepth = 0

\* SecurityAnalyzer.analyzeFile has not been called.
SaOff == saCount = <<>> /\ saTask = <<>> /\ saIssues = <<>> /\ sa = "off"

\* The input box has not been shown.
UrlOff ==
  /\ urlInput = <<>> /\ urlMsg = "null" /\ urlEntered = FALSE
  /\ urlBox = "off" /\ urlStarted = FALSE

\* findCircularDependencies is not being run step by step.
WalkOff ==
  /\ wkMap = <<>> /\ wkTodo = <<>> /\ wkStack = <<>> /\ wkRet = "none"
  /\ wkCircular = {} /\ wk = "off"

\* getDiff is not being run step by step.
GetDiffOff ==
  /\ gdFrom = 0 /\ gdTo = 0 /\ gdText = "none" /\ gdRet = "none"
  /\ gdFails = {} /\ gdView = "none" /\ gdTemp = FALSE /\ gdTimer = FALSE
  /\ gd = "off"

\* analyzeDependencies has not been called.
ImportsOff == imSources = <<>> /\ imMap = <<>> /\ imResult = <<>> /\ im = "off"

Init == MainInit /\ DiffOff /\ DepsOff /\ SecOff
  /\ CxOff
  /\ SaOff
  /\ UrlOff
  /\ WalkOff
  /\ GetDiffOff
  /\ ImportsOff

\* The extension before the command is first invoked, with nothing on disk.
Quiet ==
  /\ MainInit
  /\ workspace = "none" /\ dir = [l \in Locs |-> "absent"]
  /\ changes = {} /\ remoteHead = 0

\* ===================================================== pullLatestChanges
\* Entry of pullLatestChanges(repoPath), shared by its three call sites.
PlCall(caller) ==
  /\ pl' = "status" /\ plCaller' = caller /\ plErr' = NoErr
  /\ initialStatus' = {} /\ plCurrentHead' = 0 /\ plOps' = <<>>
  /\ onOrig' = TRUE /\ tempExists' = FALSE

\* pullLatestChanges has returned to its caller: its locals are gone
PlIdle ==
  /\ pl' = "idle" /\ plCaller' = "none" /\ plErr' = NoErr
  /\ initialStatus' = {} /\ plCurrentHead' = 0 /\ plOps' = <<>>
  /\ onOrig' = TRUE /\ tempExists' = FALSE

\* catch (error) { throw new Error(`Failed to pull latest changes: ...`) }
PlThrow(e) == pl' = "thrown" /\ plErr' = Wrap(PullPrefix, e)

\* if (initialStatus.modified.length > 0 || initialStatus.not_added.length > 0)
NeedsStash(status) == "modified" \in status \/ "not_added" \in status

\* what `git stash` puts away: changes to tracked files
Tracked(status) == status \ {"not_added"}

\* const initialStatus = await git.status()
PlStatus ==
  /\ pl = "status"
  /\ \E ok \in BOOLEAN :
       /\ ok => dir[repoPath] = "repo"
       /\ IF ok
            THEN pl' = "revparse" /\ initialStatus' = changes /\ plErr' = plErr
            ELSE PlThrow(ToolErr) /\ initialStatus' = initialStatus
  /\ UNCHANGED <<plCaller, plCurrentHead, plOps, onOrig, tempExists>>
  /\ UNCHANGED <<envVars, gitVars, cmdVars, anVars, grVars, clVars>>
  /\ UNCHANGED fnVars

\* const currentHead = await git.revparse(['HEAD'])
PlRevparse ==
  /\ pl = "revparse"
  /\ \E ok \in BOOLEAN :
       IF ok
         THEN pl' = "branch" /\ plCurrentHead' = head /\ plErr' = plErr
         ELSE PlThrow(ToolErr) /\ plCurrentHead' = plCurrentHead
  /\ UNCHANGED <<plCaller, initialStatus, plOps, onOrig, tempExists>>
  /\ UNCHANGED <<envVars, gitVars, cmdVars, anVars, grVars, clVars>>
  /\ UNCHANGED fnVars

\* const branchInfo = await git.branch()
PlBranch ==
  /\ pl = "branch"
  /\ \E ok \in BOOLEAN :
       IF ok THEN pl' = "fetch" /\ plErr' = plErr ELSE PlThrow(ToolErr)
  /\ UNCHANGED <<plCaller, initialStatus, plCurrentHead, plOps, onOrig, tempExists>>
  /\ UNCHANGED <<envVars, gitVars, cmdVars, anVars, grVars, clVars>>
  /\ UNCHANGED fnVars

\* await git.fetch(remoteName)
PlFetch ==
  /\ pl = "fetch"
  /\ \E ok \in BOOLEAN :
       IF ok THEN pl' = "stash" /\ plErr' = plErr ELSE PlThrow(ToolErr)
  /\ UNCHANGED <<plCaller, initialStatus, plCurrentHead, plOps, onOrig, tempExists>>
  /\ UNCHANGED <<envVars, gitVars, cmdVars, anVars, grVars, clVars>>
  /\ UNCHANGED fnVars

\* Handle uncommitted changes: stash when NeedsStash(initialStatus)
PlStash ==
  /\ pl = "stash"
  /\ IF NeedsStash(initialStatus)
       THEN \E ok \in BOOLEAN :
              IF ok
                THEN /\ pl' = "config" /\ plErr' = plErr
                     /\ plOps' = Append(plOps, "stash")
                     /\ stashEntry' = (stashEntry \/ Tracked(changes) # {})
                     /\ changes' = changes \ Tracked(changes)
                ELSE /\ PlThrow(ToolErr)
                     /\ plOps' = Append(plOps, "stash_fail")
                     /\ UNCHANGED <<stashEntry, changes>>
       ELSE /\ pl' = "config" /\ plErr' = plErr
            /\ UNCHANGED <<plOps, stashEntry, changes>>
  /\ UNCHANGED <<plCaller, initialStatus, plCurrentHead, onOrig, tempExists>>
  /\ UNCHANGED <<head, remoteHead>>
  /\ UNCHANGED <<envVars, cmdVars, anVars, grVars, clVars>>
  /\ UNCHANGED fnVars

\* await git.raw(['config', 'pull.rebase', 'false']) inside the inner try
PlConfig ==
  /\ pl = "config"
  /\ \E ok \in BOOLEAN :
       IF ok
         THEN pl' = "pull" /\ plOps' = plOps
         ELSE pl' = "rec_fetch" /\ plOps' = Append(plOps, "config_fail")
  /\ UNCHANGED <<plErr, plCaller, initialStatus, plCurrentHead, onOrig, tempExists>>
  /\ UNCHANGED <<envVars, gitVars, cmdVars, anVars, grVars, clVars>>
  /\ UNCHANGED fnVars

\* const pullResult = await git.pull(remoteName, currentBranch, ['--no-rebase'])
PlPull ==
  /\ pl = "pull"
  /\ \E ok \in BOOLEAN :
       IF ok
         THEN /\ pl' = "logPull" /\ plOps' = Append(plOps, "pull_ok")
              /\ head' = remoteHead
         ELSE /\ pl' = "rec_fetch" /\ plOps' = Append(plOps, "pull_fail")
              /\ head' = head
  /\ UNCHANGED <<plErr, plCaller, initialStatus, plCurrentHead, onOrig, tempExists>>
  /\ UNCHANGED <<changes, remoteHead, stashEntry>>
  /\ UNCHANGED <<envVars, cmdVars, anVars, grVars, clVars>>
  /\ UNCHANGED fnVars

\* this.logPullResult(currentBranch, pullResult), still inside the inner try:
\* result.includes(...) throws a TypeError when the pull result is not a
\* string or array (simple-git resolves pull() to a PullResult object); the
\* parameter is typed `any`, so both shapes are possible for the build.
PlLogPull ==
  /\ pl = "logPull"
  /\ \E hasIncludes \in BOOLEAN :
       IF hasIncludes
         THEN pl' = "pop" /\ plOps' = plOps
         ELSE pl' = "rec_fetch" /\ plOps' = Append(plOps, "log_fail")
  /\ UNCHANGED <<plErr, plCaller, initialStatus, plCurrentHead, onOrig, tempExists>>
  /\ UNCHANGED <<envVars, gitVars, cmdVars, anVars, grVars, clVars>>
  /\ UNCHANGED fnVars

\* a failed step of the recovery procedure enters catch (mergeError)
RecFail == pl' = "abort" /\ plOps' = Append(plOps, "rec_fail")

\* await git.fetch(remoteName, currentBranch)
PlRecFetch ==
  /\ pl = "rec_fetch"
  /\ \E ok \in BOOLEAN :
       IF ok THEN pl' = "rec_branch" /\ plOps' = plOps ELSE RecFail
  /\ UNCHANGED <<plErr, plCaller, initialStatus, plCurrentHead, onOrig, tempExists>>
  /\ UNCHANGED <<envVars, gitVars, cmdVars, anVars, grVars, clVars>>
  /\ UNCHANGED fnVars

\* await git.checkout(['-b', tempBranch])
PlRecBranch ==
  /\ pl = "rec_branch"
  /\ \E ok \in BOOLEAN :
       IF ok
         THEN /\ pl' = "rec_reset" /\ plOps' = Append(plOps, "temp_branch")
              /\ tempExists' = TRUE /\ onOrig' = FALSE
         ELSE RecFail /\ UNCHANGED <<tempExists, onOrig>>
  /\ UNCHANGED <<plErr, plCaller, initialStatus, plCurrentHead>>
  /\ UNCHANGED <<envVars, gitVars, cmdVars, anVars, grVars, clVars>>
  /\ UNCHANGED fnVars

\* await git.reset(['--hard', remoteBranch])
PlRecReset ==
  /\ pl = "rec_reset"
  /\ \E ok \in BOOLEAN :
       IF ok
         THEN /\ pl' = "rec_checkout" /\ plOps' = Append(plOps, "hard_reset")
              /\ head' = remoteHead
         ELSE RecFail /\ head' = head
  /\ UNCHANGED <<plErr, plCaller, initialStatus, plCurrentHead, onOrig, tempExists>>
  /\ UNCHANGED <<changes, remoteHead, stashEntry>>
  /\ UNCHANGED <<envVars, cmdVars, anVars, grVars, clVars>>
  /\ UNCHANGED fnVars

\* await git.checkout(currentBranch)
PlRecCheckout ==
  /\ pl = "rec_checkout"
  /\ \E ok \in BOOLEAN :
       IF ok
         THEN /\ pl' = "rec_merge" /\ plOps' = plOps
              /\ onOrig' = TRUE /\ head' = plCurrentHead
         ELSE RecFail /\ UNCHANGED <<onOrig, head>>
  /\ UNCHANGED <<plErr, plCaller, initialStatus, plCurrentHead, tempExists>>
  /\ UNCHANGED <<changes, remoteHead, stashEntry>>
  /\ UNCHANGED <<envVars, cmdVars, anVars, grVars, clVars>>
  /\ UNCHANGED fnVars

\* await git.merge([tempBranch])
PlRecMerge ==
  /\ pl = "rec_merge"
  /\ \E ok \in BOOLEAN :
       IF ok
         THEN /\ pl' = "rec_delete" /\ plOps' = Append(plOps, "merge")
              /\ head' = remoteHead
         ELSE /\ pl' = "abort" /\ plOps' = plOps \o <<"merge", "rec_fail">>
              /\ head' = head
  /\ UNCHANGED <<plErr, plCaller, initialStatus, plCurrentHead, onOrig, tempExists>>
  /\ UNCHANGED <<changes, remoteHead, stashEntry>>
  /\ UNCHANGED <<envVars, cmdVars, anVars, grVars, clVars>>
  /\ UNCHANGED fnVars

\* await git.branch(['-D', tempBranch])
PlRecDelete ==
  /\ pl = "rec_delete"
  /\ \E ok \in BOOLEAN :
       IF ok
         THEN pl' = "pop" /\ plOps' = plOps /\ tempExists' = FALSE
         ELSE RecFail /\ tempExists' = tempExists
  /\ UNCHANGED <<plErr, plCaller, initialStatus, plCurrentHead, onOrig>>
  /\ UNCHANGED <<envVars, gitVars, cmdVars, anVars, grVars, clVars>>
  /\ UNCHANGED fnVars

\* catch (mergeError): try { git.merge(['--abort']) } catch { ignore };
\* throw new Error('Could not safely merge changes. ...'), which the outer
\* catch of pullLatestChanges wraps.
PlAbort_Unguarded ==
  /\ pl = "abort"
  /\ \E ok \in BOOLEAN :
       IF ok
         THEN PlThrow(ManualErr) /\ plOps' = Append(plOps, "abort")
         ELSE PlThrow(ToolErr) /\ plOps' = Append(plOps, "abort_fail")
  /\ UNCHANGED <<plCaller, initialStatus, plCurrentHead, onOrig, tempExists>>
  /\ UNCHANGED <<envVars, gitVars, cmdVars, anVars, grVars, clVars>>
  /\ UNCHANGED fnVars

PlAbort ==
  /\ pl = "abort"
  /\ \E ok \in BOOLEAN :
       /\ plOps' = Append(plOps, IF ok THEN "abort" ELSE "abort_fail")
       /\ PlThrow(ManualErr)
  /\ UNCHANGED <<plCaller, initialStatus, plCurrentHead, onOrig, tempExists>>
  /\ UNCHANGED <<envVars, gitVars, cmdVars, anVars, grVars, clVars>>
  /\ UNCHANGED fnVars

\* Restore stashed changes if any: git.stash(['pop']); a failure is logged
PlPop ==
  /\ pl = "pop"
  /\ pl' = "final"
  /\ IF NeedsStash(initialStatus)
       THEN \E ok \in BOOLEAN :
              /\ ok => stashEntry
              /\ IF ok
                   THEN /\ plOps' = Append(plOps, "pop")
                        /\ stashEntry' = FALSE
                        /\ changes' = changes \cup Tracked(initialStatus)
                   ELSE /\ plOps' = Append(plOps, "pop_fail")
                        /\ UNCHANGED <<stashEntry, changes>>
       ELSE UNCHANGED <<plOps, stashEntry, changes>>
  /\ UNCHANGED <<plErr, plCaller, initialStatus, plCurrentHead, onOrig, tempExists>>
  /\ UNCHANGED <<head, remoteHead>>
  /\ UNCHANGED <<envVars, cmdVars, anVars, grVars, clVars>>
  /\ UNCHANGED fnVars

\* final git.status(), git.revparse(['HEAD']) and, when HEAD moved, git.log()
PlFinal ==
  /\ pl = "final"
  /\ \E ok \in BOOLEAN :
       IF ok THEN pl' = "ret" /\ plErr' = plErr ELSE PlThrow(ToolErr)
  /\ UNCHANGED <<plCaller, initialStatus, plCurrentHead, plOps, onOrig, tempExists>>
  /\ UNCHANGED <<envVars, gitVars, cmdVars, anVars, grVars, clVars>>
  /\ UNCHANGED fnVars

PullDone == pl \in {"ret", "thrown"}

\* ======================================================= cloneRepository
ClCall(caller) == cl' = "access" /\ clCaller' = caller /\ clErr' = NoErr

\* cloneRepository has returned to its caller
ClIdle == cl' = "idle" /\ clCaller' = "none" /\ clErr' = NoErr

\* catch (error) { throw new Error(`Failed to clone repository: ...`) }
ClThrow(e) == cl' = "thrown" /\ clErr' = Wrap(ClonePrefix, e)

\* fs.access(repoPath) and, when the directory exists, git.status()
ClAccess ==
  /\ cl = "access"
  /\ IF dir[repoPath] = "absent"
       THEN cl' = "clone" /\ UNCHANGED plVars
       ELSE IF dir[repoPath] = "repo"
              THEN cl' = "pulling" /\ PlCall("cloneRepository")
              ELSE cl' = "rm" /\ UNCHANGED plVars
  /\ UNCHANGED <<clErr, clCaller>>
  /\ UNCHANGED <<envVars, gitVars, cmdVars, anVars, grVars>>
  /\ UNCHANGED fnVars

\* await this.pullLatestChanges(repoPath) returned or threw
ClPullReturn ==
  /\ cl = "pulling" /\ PullDone
  /\ IF pl = "thrown" THEN ClThrow(plErr) ELSE cl' = "ret" /\ clErr' = clErr
  /\ PlIdle
  /\ UNCHANGED clCaller
  /\ UNCHANGED <<envVars, gitVars, cmdVars, anVars, grVars>>
  /\ UNCHANGED fnVars

\* Not a git repo: await fs.rm(repoPath, { recursive: true, force: true })
ClRm ==
  /\ cl = "rm"
  /\ \E ok \in BOOLEAN :
       IF ok
         THEN /\ cl' = "clone" /\ clErr' = clErr
              /\ dir' = [dir EXCEPT ![repoPath] = "absent"]
              /\ fsOps' = Append(fsOps, "rm")
         ELSE ClThrow(ToolErr) /\ UNCHANGED <<dir, fsOps>>
  /\ UNCHANGED <<clCaller, workspace, wsLoc>>
  /\ UNCHANGED <<gr, grErr, repoPath, choice, dialogNone, currentHead, updErr,
                 sentinelRaised, diffShown>>
  /\ UNCHANGED <<gitVars, cmdVars, anVars, plVars>>
  /\ UNCHANGED fnVars

\* await this.git.clone(repoUrl, repoPath)
ClClone ==
  /\ cl = "clone"
  /\ \E ok \in BOOLEAN :
       IF ok
         THEN /\ cl' = "ret" /\ clErr' = clErr
              /\ dir' = [dir EXCEPT ![repoPath] = "repo"]
              /\ fsOps' = Append(fsOps, "clone")
              /\ head' = remoteHead /\ changes' = {} /\ stashEntry' = FALSE
         ELSE /\ ClThrow(ToolErr)
              /\ fsOps' = Append(fsOps, "clone_fail")
              /\ UNCHANGED <<dir, head, changes, stashEntry>>
  /\ UNCHANGED <<clCaller, workspace, wsLoc, remoteHead>>
  /\ UNCHANGED <<gr, grErr, repoPath, choice, dialogNone, currentHead, updErr,
                 sentinelRaised, diffShown>>
  /\ UNCHANGED <<cmdVars, anVars, plVars>>
  /\ UNCHANGED fnVars

CloneDone == cl \in {"ret", "thrown"}

\* ========================================================= getRepository
GrCall ==
  /\ gr' = "start" /\ grErr' = NoErr /\ repoPath' = "default"
  /\ choice' = "none" /\ dialogNone' = FALSE /\ currentHead' = 0
  /\ updErr' = "none" /\ fsOps' = <<>> /\ diffShown' = FALSE
  /\ UNCHANGED sentinelRaised

\* getRepository has returned to its caller, which keeps repoPath
GrIdle ==
  /\ gr' = "idle" /\ grErr' = NoErr
  /\ choice' = "none" /\ dialogNone' = FALSE /\ currentHead' = 0
  /\ updErr' = "none" /\ fsOps' = <<>> /\ diffShown' = FALSE
  /\ UNCHANGED <<repoPath, sentinelRaised>>

\* an exception inside the outer try block enters catch (error)
ToOuterCatch(e) == gr' = "outerCatch" /\ grErr' = e

\* an exception inside the inner try block enters catch (gitError)
ToInnerCatch(step) == gr' = "prompt" /\ updErr' = step

\* const repoName = this.getRepoName(repoUrl): throws outside any try
GrStart ==
  /\ gr = "start"
  /\ \E nameOk \in BOOLEAN :
       IF nameOk
         THEN gr' = "access" /\ grErr' = grErr
         ELSE gr' = "thrown" /\ grErr' = InvalidUrlErr
  /\ UNCHANGED <<repoPath, choice, dialogNone, currentHead, updErr,
                 sentinelRaised, fsOps, diffShown>>
  /\ UNCHANGED <<envVars, gitVars, cmdVars, anVars, clVars, plVars>>
  /\ UNCHANGED fnVars

\* await fs.access(repoPath, fs.constants.R_OK)
GrAccess ==
  /\ gr = "access"
  /\ IF dir[repoPath] = "absent"
       THEN ToOuterCatch(ToolErr)
       ELSE gr' = "status" /\ grErr' = grErr
  /\ UNCHANGED <<repoPath, choice, dialogNone, currentHead, updErr,
                 sentinelRaised, fsOps, diffShown>>
  /\ UNCHANGED <<envVars, gitVars, cmdVars, anVars, clVars, plVars>>
  /\ UNCHANGED fnVars

\* await git.status(): verify it is a git repository
GrStatus ==
  /\ gr = "status"
  /\ IF dir[repoPath] = "repo"
       THEN gr' = "upd_revparse" /\ updErr' = updErr
       ELSE ToInnerCatch("status")
  /\ UNCHANGED <<grErr, repoPath, choice, dialogNone, currentHead,
                 sentinelRaised, fsOps, diffShown>>
  /\ UNCHANGED <<envVars, gitVars, cmdVars, anVars, clVars, plVars>>
  /\ UNCHANGED fnVars

\* const currentHead = await git.revparse(['HEAD'])
GrUpdRevparse ==
  /\ gr = "upd_revparse"
  /\ \E ok \in BOOLEAN :
       IF ok
         THEN gr' = "upd_fetch" /\ currentHead' = head /\ updErr' = updErr
         ELSE ToInnerCatch("revparse") /\ currentHead' = currentHead
  /\ UNCHANGED <<grErr, repoPath, choice, dialogNone,
                 sentinelRaised, fsOps, diffShown>>
  /\ UNCHANGED <<envVars, gitVars, cmdVars, anVars, clVars, plVars>>
  /\ UNCHANGED fnVars

\* await git.fetch(['--all', '--prune']), then call pullLatestChanges
GrUpdFetch ==
  /\ gr = "upd_fetch"
  /\ \E ok \in BOOLEAN :
       IF ok
         THEN gr' = "upd_pull" /\ updErr' = updErr /\ PlCall("getRepository")
         ELSE ToInnerCatch("fetch") /\ UNCHANGED plVars
  /\ UNCHANGED <<grErr, repoPath, choice, dialogNone, currentHead,
                 sentinelRaised, fsOps, diffShown>>
  /\ UNCHANGED <<envVars, gitVars, cmdVars, anVars, clVars>>
  /\ UNCHANGED fnVars

\* await this.pullLatestChanges(repoPath) returned or threw
GrUpdPullReturn ==
  /\ gr = "upd_pull" /\ PullDone
  /\ IF pl = "thrown"
       THEN ToInnerCatch("pull")
       ELSE gr' = "upd_newhead" /\ updErr' = updErr
  /\ PlIdle
  /\ UNCHANGED <<grErr, repoPath, choice, dialogNone, currentHead,
                 sentinelRaised, fsOps, diffShown>>
  /\ UNCHANGED <<envVars, gitVars, cmdVars, anVars, clVars>>
  /\ UNCHANGED fnVars

\* const newHead = await git.revparse(['HEAD']);
\* if (currentHead !== newHead) await this.showVisualDiff(...)
GrUpdNewHead ==
  /\ gr = "upd_newhead"
  /\ \E ok \in BOOLEAN, diffOk \in BOOLEAN :
       IF ~ok
         THEN ToInnerCatch("revparse") /\ diffShown' = diffShown
         ELSE IF currentHead # head
                THEN /\ diffShown' = TRUE
                     /\ IF diffOk
                          THEN gr' = "ret" /\ updErr' = updErr
                          ELSE ToInnerCatch("diff")
                ELSE gr' = "ret" /\ updErr' = updErr /\ diffShown' = diffShown
  /\ UNCHANGED <<grErr, repoPath, choice, dialogNone, currentHead,
                 sentinelRaised, fsOps>>
  /\ UNCHANGED <<envVars, gitVars, cmdVars, anVars, clVars, plVars>>
  /\ UNCHANGED fnVars

\* catch (gitError): showQuickPick(['Clone Here', 'Clone in New Location',
\* 'Cancel']); 'Cancel' throws 'Operation cancelled by user'
GrPrompt ==
  /\ gr = "prompt"
  /\ \E c \in Choices :
       /\ choice' = c
       /\ fsOps' = Append(fsOps, "prompt")
       /\ CASE c = "Cancel" -> ToOuterCatch(CancelErr)
            [] c = "Clone in New Location" -> gr' = "dialog" /\ grErr' = grErr
            [] c = "Clone Here" -> gr' = "rm" /\ grErr' = grErr
            [] OTHER -> gr' = "clone_inner" /\ grErr' = grErr
  /\ UNCHANGED <<repoPath, dialogNone, currentHead, updErr,
                 sentinelRaised, diffShown>>
  /\ UNCHANGED <<envVars, gitVars, cmdVars, anVars, clVars, plVars>>
  /\ UNCHANGED fnVars

\* showOpenDialog; no selection throws 'No directory selected'
GrDialog ==
  /\ gr = "dialog"
  /\ \E selected \in BOOLEAN :
       IF selected
         THEN /\ repoPath' = "new" /\ gr' = "clone_inner"
              /\ UNCHANGED <<grErr, dialogNone>>
         ELSE /\ ToOuterCatch(NoDirErr) /\ dialogNone' = TRUE
              /\ repoPath' = repoPath
  /\ UNCHANGED <<choice, currentHead, updErr, sentinelRaised, fsOps, diffShown>>
  /\ UNCHANGED <<envVars, gitVars, cmdVars, anVars, clVars, plVars>>
  /\ UNCHANGED fnVars

\* if (choice === 'Clone Here') await fs.rm(repoPath, {recursive, force})
GrRm ==
  /\ gr = "rm"
  /\ \E ok \in BOOLEAN :
       IF ok
         THEN /\ gr' = "clone_inner" /\ grErr' = grErr
              /\ dir' = [dir EXCEPT ![repoPath] = "absent"]
              /\ fsOps' = Append(fsOps, "rm")
         ELSE ToOuterCatch(ToolErr) /\ UNCHANGED <<dir, fsOps>>
  /\ UNCHANGED <<workspace, wsLoc>>
  /\ UNCHANGED <<repoPath, choice, dialogNone, currentHead, updErr,
                 sentinelRaised, diffShown>>
  /\ UNCHANGED <<gitVars, cmdVars, anVars, clVars, plVars>>
  /\ UNCHANGED fnVars

\* await this.cloneRepository(repoUrl, repoPath) in catch (gitError)
GrCloneInner ==
  /\ gr = "clone_inner"
  /\ gr' = "cloning_inner" /\ ClCall("inner")
  /\ UNCHANGED <<grErr, repoPath, choice, dialogNone, currentHead, updErr,
                 sentinelRaised, fsOps, diffShown>>
  /\ UNCHANGED <<envVars, gitVars, cmdVars, anVars, plVars>>
  /\ UNCHANGED fnVars

GrCloneInnerReturn ==
  /\ gr = "cloning_inner" /\ CloneDone
  /\ IF cl = "thrown"
       THEN ToOuterCatch(clErr)
       ELSE /\ grErr' = grErr
            /\ gr' = IF choice = "Clone in New Location" THEN "switch" ELSE "ret"
  /\ ClIdle
  /\ UNCHANGED <<repoPath, choice, dialogNone, currentHead, updErr,
                 sentinelRaised, fsOps, diffShown>>
  /\ UNCHANGED <<envVars, gitVars, cmdVars, anVars, plVars>>
  /\ UNCHANGED fnVars

\* Clone in New Location: revparse HEAD and HEAD^, showVisualDiff,
\* executeCommand('vscode.openFolder'), throw new Error('WORKSPACE_SWITCHED')
GrNewLocSwitch ==
  /\ gr = "switch"
  /\ \E ok \in BOOLEAN :
       IF ok
         THEN /\ ToOuterCatch(Sentinel)
              /\ sentinelRaised' = [sentinelRaised EXCEPT ![run] = TRUE]
              /\ workspace' = "match" /\ wsLoc' = repoPath
         ELSE /\ ToOuterCatch(ToolErr)
              /\ UNCHANGED <<sentinelRaised, workspace, wsLoc>>
  /\ UNCHANGED <<repoPath, choice, dialogNone, currentHead, updErr,
                 fsOps, diffShown, dir>>
  /\ UNCHANGED <<gitVars, cmdVars, anVars, clVars, plVars>>
  /\ UNCHANGED fnVars

\* catch (error): rethrow WORKSPACE_SWITCHED; otherwise "Directory doesn't
\* exist - clone fresh": fs.mkdir(dirname), then cloneRepository
GrOuterCatch_NoRethrow ==
  /\ gr = "outerCatch"
  /\ \E ok \in BOOLEAN :
       IF ok
         THEN gr' = "cloning_outer" /\ grErr' = grErr /\ ClCall("outer")
         ELSE gr' = "thrown" /\ grErr' = ToolErr /\ UNCHANGED clVars
  /\ UNCHANGED <<repoPath, choice, dialogNone, currentHead, updErr,
                 sentinelRaised, fsOps, diffShown>>
  /\ UNCHANGED <<envVars, gitVars, cmdVars, anVars, plVars>>
  /\ UNCHANGED fnVars

GrOuterCatch ==
  /\ gr = "outerCatch"
  /\ IF grErr = Sentinel
       THEN gr' = "thrown" /\ grErr' = grErr /\ UNCHANGED clVars
       ELSE \E ok \in BOOLEAN :
              IF ok
                THEN gr' = "cloning_outer" /\ grErr' = grErr /\ ClCall("outer")
                ELSE gr' = "thrown" /\ grErr' = ToolErr /\ UNCHANGED clVars
  /\ UNCHANGED <<repoPath, choice, dialogNone, currentHead, updErr,
                 sentinelRaised, fsOps, diffShown>>
  /\ UNCHANGED <<envVars, gitVars, cmdVars, anVars, plVars>>
  /\ UNCHANGED fnVars

\* await this.cloneRepository(repoUrl, repoPath) in catch (error)
GrCloneOuterReturn ==
  /\ gr = "cloning_outer" /\ CloneDone
  /\ IF cl = "thrown"
       THEN gr' = "thrown" /\ grErr' = clErr
       ELSE gr' = "fresh" /\ grErr' = grErr
  /\ ClIdle
  /\ UNCHANGED <<repoPath, choice, dialogNone, currentHead, updErr,
                 sentinelRaised, fsOps, diffShown>>
  /\ UNCHANGED <<envVars, gitVars, cmdVars, anVars, plVars>>
  /\ UNCHANGED fnVars

\* after the fresh clone: revparse HEAD and HEAD^, showVisualDiff, then
\* openFolder + throw WORKSPACE_SWITCHED when no workspace is open, else
\* updateWorkspaceFolders
GrFreshSwitch ==
  /\ gr = "fresh"
  /\ \E ok \in BOOLEAN :
       IF ~ok
         THEN /\ gr' = "thrown" /\ grErr' = ToolErr
              /\ UNCHANGED <<sentinelRaised, workspace, wsLoc>>
         ELSE /\ workspace' = "match" /\ wsLoc' = repoPath
              /\ IF workspace = "none"
                   THEN /\ gr' = "thrown" /\ grErr' = Sentinel
                        /\ sentinelRaised' = [sentinelRaised EXCEPT ![run] = TRUE]
                   ELSE /\ gr' = "ret" /\ grErr' = grErr
                        /\ UNCHANGED sentinelRaised
  /\ UNCHANGED <<repoPath, choice, dialogNone, currentHead, updErr,
                 fsOps, diffShown, dir>>
  /\ UNCHANGED <<gitVars, cmdVars, anVars, clVars, plVars>>
  /\ UNCHANGED fnVars

GetRepoDone == gr \in {"ret", "thrown"}

\* =============================================================== analyze
AnThrow(e, at) == an' = "thrown" /\ anErr' = e /\ anFailAt' = at

\* workspaceFolders.find(folder => folder.name === repoName): pull the open
\* folder directly, otherwise getRepository
AnStart ==
  /\ an = "start"
  /\ an' = "sync"
  /\ IF workspace = "match"
       THEN /\ repoPath' = wsLoc /\ PlCall("analyze")
            /\ UNCHANGED <<gr, grErr, choice, dialogNone, currentHead, updErr,
                           sentinelRaised, fsOps, diffShown>>
       ELSE GrCall /\ UNCHANGED plVars
  /\ UNCHANGED <<anErr, anFailAt, toScan, todo, scanned, archRan, syncFrom, visual>>
  /\ UNCHANGED <<envVars, gitVars, cmdVars, clVars>>
  /\ UNCHANGED fnVars

\* getRepository returned from its update path (lines 32-68): the directory
\* was a git working copy and fetch, pull and the HEAD comparison passed
UpdatedExisting == gr = "ret" /\ updErr = "none" /\ fsOps = <<>>

\* the awaited pullLatestChanges / getRepository returned or threw; the call
\* is outside analyze's try block, so the error leaves analyze as it is
AnSyncReturn ==
  /\ an = "sync"
  /\ \/ /\ gr = "idle" /\ PullDone
        /\ IF pl = "thrown"
             THEN AnThrow(plErr, "sync")
             ELSE an' = "info" /\ UNCHANGED <<anErr, anFailAt>>
        /\ syncFrom' = IF pl = "ret" THEN plCurrentHead ELSE -1
        /\ visual' = visual
        /\ PlIdle /\ UNCHANGED grVars
     \/ /\ GetRepoDone
        /\ IF gr = "thrown"
             THEN AnThrow(grErr, "sync")
             ELSE an' = "info" /\ UNCHANGED <<anErr, anFailAt>>
        /\ syncFrom' = IF UpdatedExisting THEN currentHead ELSE -1
        /\ visual' = IF UpdatedExisting /\ diffShown
                       THEN {<<currentHead, head>>} ELSE {}
        /\ GrIdle /\ UNCHANGED plVars
  /\ UNCHANGED <<toScan, todo, scanned, archRan>>
  /\ UNCHANGED <<envVars, gitVars, cmdVars, clVars>>
  /\ UNCHANGED fnVars

\* getBranches(repoPath) and getLastCommit(repoPath)
AnInfo ==
  /\ an = "info"
  /\ \E ok \in BOOLEAN :
       IF ok
         THEN an' = "diff" /\ UNCHANGED <<anErr, anFailAt>>
         ELSE AnThrow(ToolErr, "info")
  /\ UNCHANGED <<toScan, todo, scanned, archRan, syncFrom, visual>>
  /\ UNCHANGED <<envVars, gitVars, cmdVars, grVars, clVars, plVars>>
  /\ UNCHANGED fnVars

\* the scan loop starts with the selected files, or is skipped when empty
StartScan(selected) ==
  /\ toScan' = selected /\ todo' = selected
  /\ an' = IF selected = {} THEN "arch" ELSE "scan"
  /\ UNCHANGED <<anErr, anFailAt>>

\* const diff = await getDiff(repoPath, `${mainBranch}~1`, mainBranch):
\* getDiff shows the visual diff of the latest commit against its parent;
\* if (diff.trim()) the files of parseDiff(diff) are selected, else
\* findFiles is asked
AnDiff ==
  /\ an = "diff"
  /\ \E res \in {"throws", "empty", "changes"} :
       CASE res = "throws" ->
              /\ AnThrow(ToolErr, "diff")
              /\ UNCHANGED <<toScan, todo, visual>>
         [] res = "empty" ->
              /\ an' = "findFiles"
              /\ visual' = visual \cup {<<head - 1, head>>}
              /\ UNCHANGED <<anErr, anFailAt, toScan, todo>>
         [] OTHER ->
              /\ visual' = visual \cup {<<head - 1, head>>}
              /\ \E changed \in SUBSET Files : StartScan(changed)
  /\ UNCHANGED <<scanned, archRan, syncFrom>>
  /\ UNCHANGED <<envVars, gitVars, cmdVars, grVars, clVars, plVars>>
  /\ UNCHANGED fnVars

\* vscode.workspace.findFiles(...), keeping file.fsPath.startsWith(repoPath)
AnFindFiles ==
  /\ an = "findFiles"
  /\ \/ AnThrow(ToolErr, "findFiles") /\ UNCHANGED <<toScan, todo>>
     \/ \E found \in SUBSET Files : \E inRepo \in SUBSET found :
          StartScan(inRepo)
  /\ UNCHANGED <<scanned, archRan, syncFrom, visual>>
  /\ UNCHANGED <<envVars, gitVars, cmdVars, grVars, clVars, plVars>>
  /\ UNCHANGED fnVars

\* result of analyzeFile(filePath, relativePath) on one file: every failure
\* is caught inside analyzeFile
FileOutcome(access, sec, opt) ==
  IF ~access THEN "inaccessible"
  ELSE IF sec /\ opt THEN "scanned"
  ELSE IF sec THEN "optimizationFailed"
  ELSE IF opt THEN "securityFailed"
  ELSE "bothFailed"

\* one iteration of `for (const filePath of ...) await analyzeFile(...)`
AnScanFile_NoCatch ==
  /\ an = "scan" /\ todo # {}
  /\ LET f == Min(todo) IN
       \E access \in BOOLEAN, sec \in BOOLEAN, opt \in BOOLEAN :
         /\ scanned' = [scanned EXCEPT ![f] = FileOutcome(access, sec, opt)]
         /\ todo' = todo \ {f}
         /\ IF FileOutcome(access, sec, opt) # "scanned"
              THEN AnThrow(ToolErr, "file")
              ELSE /\ an' = IF todo \ {f} = {} THEN "arch" ELSE "scan"
                   /\ UNCHANGED <<anErr, anFailAt>>
  /\ UNCHANGED <<toScan, archRan, syncFrom, visual>>
  /\ UNCHANGED <<envVars, gitVars, cmdVars, grVars, clVars, plVars>>
  /\ UNCHANGED fnVars

AnScanFile ==
  /\ an = "scan" /\ todo # {}
  /\ LET f == Min(todo) IN
       \E access \in BOOLEAN, sec \in BOOLEAN, opt \in BOOLEAN :
         /\ scanned' = [scanned EXCEPT ![f] = FileOutcome(access, sec, opt)]
         /\ todo' = todo \ {f}
         /\ an' = IF todo \ {f} = {} THEN "arch" ELSE "scan"
  /\ UNCHANGED <<anErr, anFailAt, toScan, archRan, syncFrom, visual>>
  /\ UNCHANGED <<envVars, gitVars, cmdVars, grVars, clVars, plVars>>
  /\ UNCHANGED fnVars

\* architectureAnalyzer.analyzeStructure(repoPath) in its own try/catch
AnArch ==
  /\ an = "arch"
  /\ \E ok \in BOOLEAN : archRan' = TRUE
  /\ an' = "status"
  /\ UNCHANGED <<anErr, anFailAt, toScan, todo, scanned, syncFrom, visual>>
  /\ UNCHANGED <<envVars, gitVars, cmdVars, grVars, clVars, plVars>>
  /\ UNCHANGED fnVars

\* result.repoInfo.modifiedFiles = await repoManager.getStatus(repoPath);
\* catch (error) { throw error }; return result
AnStatus ==
  /\ an = "status"
  /\ \E ok \in BOOLEAN :
       IF ok
         THEN an' = "ret" /\ UNCHANGED <<anErr, anFailAt>>
         ELSE AnThrow(ToolErr, "status")
  /\ UNCHANGED <<toScan, todo, scanned, archRan, syncFrom, visual>>
  /\ UNCHANGED <<envVars, gitVars, cmdVars, grVars, clVars, plVars>>
  /\ UNCHANGED fnVars

\* analyze has returned to the command handler
AnIdle ==
  /\ an' = "idle" /\ anErr' = NoErr /\ anFailAt' = "none"
  /\ toScan' = {} /\ todo' = {}
  /\ scanned' = [f \in Files |-> "none"] /\ archRan' = FALSE
  /\ syncFrom' = -1 /\ visual' = {}

\* ======================================================= command handler
\* showInputBox: undefined when dismissed, else a URL validateInput accepted
CmdInput ==
  /\ cmd = "input"
  /\ \E given \in BOOLEAN :
       IF given
         THEN cmd' = "progress" /\ an' = "start"
         ELSE cmd' = "done" /\ an' = an
  /\ UNCHANGED <<run, errorShown, reportOpened, reinvoked, escaped>>
  /\ UNCHANGED <<anErr, anFailAt, toScan, todo, scanned, archRan, syncFrom, visual>>
  /\ UNCHANGED <<envVars, gitVars, grVars, clVars, plVars>>
  /\ UNCHANGED fnVars

\* const result = await analyze(repoUrl); showAnalysisResults(result)
CmdShowResults ==
  /\ cmd = "progress" /\ an = "ret"
  /\ reportOpened' = [reportOpened EXCEPT ![run] = @ + 1]
  /\ cmd' = "done"
  /\ AnIdle
  /\ UNCHANGED <<run, errorShown, reinvoked, escaped>>
  /\ UNCHANGED <<envVars, gitVars, grVars, clVars, plVars>>
  /\ UNCHANGED fnVars

\* catch (error), error.message !== 'WORKSPACE_SWITCHED': showErrorMessage
CmdCatchError_Rethrow ==
  /\ cmd = "progress" /\ an = "thrown" /\ anErr # Sentinel
  /\ errorShown' = [errorShown EXCEPT ![run] = @ + 2]
  /\ escaped' = [escaped EXCEPT ![run] = "other"]
  /\ cmd' = "done"
  /\ AnIdle
  /\ UNCHANGED <<run, reportOpened, reinvoked>>
  /\ UNCHANGED <<envVars, gitVars, grVars, clVars, plVars>>
  /\ UNCHANGED fnVars

CmdCatchError ==
  /\ cmd = "progress" /\ an = "thrown" /\ anErr # Sentinel
  /\ errorShown' = [errorShown EXCEPT ![run] = @ + 1]
  /\ escaped' = [escaped EXCEPT ![run] = "other"]
  /\ cmd' = "done"
  /\ AnIdle
  /\ UNCHANGED <<run, reportOpened, reinvoked>>
  /\ UNCHANGED <<envVars, gitVars, grVars, clVars, plVars>>
  /\ UNCHANGED fnVars

\* catch (error), error.message === 'WORKSPACE_SWITCHED':
\* executeCommand('repo-analyzer.analyzeRepository', repoUrl) runs the
\* handler again
CmdReinvoke ==
  /\ cmd = "progress" /\ an = "thrown" /\ anErr = Sentinel
  /\ run < MaxRuns
  /\ reinvoked' = [reinvoked EXCEPT ![run] = TRUE]
  /\ escaped' = [escaped EXCEPT ![run] = "sentinel"]
  /\ run' = run + 1
  /\ cmd' = "input"
  /\ AnIdle
  /\ UNCHANGED <<errorShown, reportOpened>>
  /\ UNCHANGED <<envVars, gitVars, grVars, clVars, plVars>>
  /\ UNCHANGED fnVars

\* ================================================================== Next
Next ==
  \/ CmdInput \/ CmdShowResults \/ CmdCatchError \/ CmdReinvoke
  \/ AnStart \/ AnSyncReturn \/ AnInfo \/ AnDiff \/ AnFindFiles
  \/ AnScanFile \/ AnArch \/ AnStatus
  \/ GrStart \/ GrAccess \/ GrStatus \/ GrUpdRevparse \/ GrUpdFetch
  \/ GrUpdPullReturn \/ GrUpdNewHead \/ GrPrompt \/ GrDialog \/ GrRm
  \/ GrCloneInner \/ GrCloneInnerReturn \/ GrNewLocSwitch \/ GrOuterCatch
  \/ GrCloneOuterReturn \/ GrFreshSwitch
  \/ ClAccess \/ ClPullReturn \/ ClRm \/ ClClone
  \/ PlStatus \/ PlRevparse \/ PlBranch \/ PlFetch \/ PlStash \/ PlConfig
  \/ PlPull \/ PlLogPull \/ PlRecFetch \/ PlRecBranch \/ PlRecReset
  \/ PlRecCheckout \/ PlRecMerge \/ PlRecDelete \/ PlAbort \/ PlPop
  \/ PlFinal

Spec == Init /\ [][Next]_vars

\* ============================================================ parseDiff
\* The text of a diff is a sequence of tokens <<kind, n>>. The kinds are
\* the substrings parseDiff looks for ("diff --git", "@@", "\n", "a/",
\* " b/", the "-o,n +s,m" range of a hunk header with new-side start n,
\* the first characters "+", "-", " ") plus "path" (file name n) and "x"
\* (any other non-empty text).
T(k) == <<k, 0>>
DiffGit == T("diff --git")
AtAt == T("@@")
NL == T("\n")
PathTok(p) == <<"path", p>>
RangeTok(s) == <<"range", s>>
Blank == {T(" "), NL}

Paths == {1, 2}
\* unchanged lines between the start of the file, or the hunk before, and
\* a hunk
Gaps == {1, 2}
LineKinds == {"add", "remove", "context", "addAt"}
ChangeLines == {"add", "remove", "addAt"}

RECURSIVE Concat(_)
Concat(ss) == IF ss = <<>> THEN <<>> ELSE Head(ss) \o Concat(Tail(ss))

\* What git prints for one body line of a hunk; "addAt" is an added line
\* whose own text contains "@@".
RenderLine(k) ==
  CASE k = "add" -> <<T("+"), T("x"), NL>>
    [] k = "remove" -> <<T("-"), T("x"), NL>>
    [] k = "context" -> <<T(" "), T("x"), NL>>
    [] k = "addAt" -> <<T("+"), T("x"), AtAt, T("x"), NL>>

\* "@@ -o,n +s,m @@[ section heading]\n" followed by the body lines.
RenderHunk(h) ==
  <<AtAt, RangeTok(h.start), AtAt>>
    \o (IF h.heading THEN <<T(" "), T("x")>> ELSE <<>>) \o <<NL>>
    \o Concat([i \in 1 .. Len(h.body) |-> RenderLine(h.body[i])])

\* "diff --git a/old b/new\n", then for a segment with hunks the
\* "--- a/old\n" and "+++ b/new\n" lines and the hunks.
RenderSegment(s) ==
  <<DiffGit, T(" "), T("a/"), PathTok(s.old), T(" b/"), PathTok(s.new), NL>>
    \o (IF s.hunks = <<>> THEN <<>>
        ELSE <<T("-"), T("x"), NL, T("+"), T("x"), NL>>)
    \o Concat([i \in 1 .. Len(s.hunks) |-> RenderHunk(s.hunks[i])])

RenderDiff(ss) == Concat([i \in 1 .. Len(ss) |-> RenderSegment(ss[i])])

\* String.prototype.split with a literal separator.
RECURSIVE SplitOn(_, _)
SplitOn(s, t) ==
  IF \A i \in 1 .. Len(s) : s[i] # t THEN <<s>>
  ELSE LET i == Min({j \in 1 .. Len(s) : s[j] = t})
       IN <<SubSeq(s, 1, i - 1)>> \o SplitOn(SubSeq(s, i + 1, Len(s)), t)

\* segment.match(/a\/(.+?) b\//): the text between the first "a/" and the
\* nearest " b/" at least one character later; <<>> when there is no match.
FileMatch(seg) ==
  LET starts == {i \in 1 .. Len(seg) : /\ seg[i] = T("a/")
                    /\ \E j \in i + 2 .. Len(seg) : seg[j] = T(" b/")}
  IN IF starts = {} THEN <<>>
     ELSE LET i == Min(starts)
              j == Min({k \in i + 2 .. Len(seg) : seg[k] = T(" b/")})
          IN SubSeq(seg, i + 1, j - 1)

\* hunkHeader.match(/-(\d+),?\d* \+(\d+),?\d*/): the new-side start of the
\* first range in the header, -1 when the header holds none.
LineMatch(header) ==
  LET at == {i \in 1 .. Len(header) : header[i][1] = "range"}
  IN IF at = {} THEN -1 ELSE header[Min(at)][2]

\* The loop over the lines of one hunk: the Change records it pushes.
RECURSIVE HunkChanges(_, _)
HunkChanges(lines, currentLine) ==
  IF lines = <<>> THEN <<>>
  ELSE LET line == Head(lines) IN
    IF line = <<>> THEN HunkChanges(Tail(lines), currentLine)
    ELSE LET type == IF line[1] = T("+") THEN "add"
                     ELSE IF line[1] = T("-") THEN "remove" ELSE "modify"
             next == IF type # "remove" THEN currentLine + 1
                     ELSE currentLine
         IN (IF type # "modify"
             THEN <<[type |-> type, lineNumber |-> currentLine,
                     content |-> Tail(line)]>>
             ELSE <<>>) \o HunkChanges(Tail(lines), next)

\* The loop over the pieces between "@@" markers, taken two at a time as
\* (header, content); a pair with an empty piece or a header without a
\* range is skipped.
RECURSIVE HunksChanges(_)
HunksChanges(hunks) ==
  IF hunks = <<>> THEN <<>>
  ELSE LET hunkHeader == hunks[1]
           hunkContent == IF Len(hunks) >= 2 THEN hunks[2] ELSE <<>>
           rest == IF Len(hunks) >= 2 THEN Tail(Tail(hunks)) ELSE <<>>
       IN (IF hunkHeader # <<>> /\ hunkContent # <<>>
              /\ LineMatch(hunkHeader) # -1
           THEN HunkChanges(SplitOn(hunkContent, NL), LineMatch(hunkHeader))
           ELSE <<>>) \o HunksChanges(rest)

\* path.relative(repoPath, filePath) with a relative filePath: Node resolves
\* it against the working directory of the extension host, so the result
\* is filePath only when that directory is the repository.
PathRelative(atRepo, filePath) ==
  IF atRepo THEN filePath ELSE <<T("..")>> \o filePath

SegmentEntry_KeepEmpty(segment, atRepo) ==
  IF \A i \in 1 .. Len(segment) : segment[i] \in Blank THEN <<>>
  ELSE IF FileMatch(segment) = <<>> THEN <<>>
  ELSE <<[file |-> PathRelative(atRepo, FileMatch(segment)),
          changes |-> HunksChanges(Tail(SplitOn(segment, AtAt)))]>>

\* One iteration of the loop over file segments: the entries it pushes.
SegmentEntry(segment, atRepo) ==
  IF \A i \in 1 .. Len(segment) : segment[i] \in Blank THEN <<>>
  ELSE IF FileMatch(segment) = <<>> THEN <<>>
  ELSE LET found == HunksChanges(Tail(SplitOn(segment, AtAt)))
       IN IF Len(found) > 0
          THEN <<[file |-> PathRelative(atRepo, FileMatch(segment)),
                  changes |-> found]>>
          ELSE <<>>

parseDiff(diff, atRepo) ==
  LET fileSegments == SplitOn(diff, DiffGit)
  IN Concat([i \in 1 .. Len(fileSegments) |->
               SegmentEntry(fileSegments[i], atRepo)])

\* ---- the diffs git can hand to parseDiff, built line by line
NewLen(h) == Cardinality({i \in 1 .. Len(h.body) : h.body[i] # "remove"})
HunkDone(h) == h.body # <<>>
SegmentDone(s) == \A i \in 1 .. Len(s.hunks) : HunkDone(s.hunks[i])
DiffDone == \A i \in 1 .. Len(segs) : SegmentDone(segs[i])
LastSeg == segs[Len(segs)]
RECURSIVE Sum(_)
Sum(ns) == IF ns = <<>> THEN 0 ELSE Head(ns) + Sum(Tail(ns))
\* segments, hunks and body lines of the diff, counted together
DiffSize ==
  Sum([i \in 1 .. Len(segs) |->
         1 + Sum([j \in 1 .. Len(segs[i].hunks) |->
                    1 + Len(segs[i].hunks[j].body)])])
LastHunk == LastSeg.hunks[Len(LastSeg.hunks)]

DiffAddSegment ==
  /\ pd = "build" /\ DiffSize < MaxDiffSize /\ DiffDone
  /\ \E old \in Paths, new \in Paths :
       segs' = Append(segs, [old |-> old, new |-> new, hunks |-> <<>>])
  /\ UNCHANGED <<cwdAtRepo, differences, pd>>

\* A hunk starts after the new-side lines of the hunk before it, with at
\* least one unchanged line in between.
DiffAddHunk ==
  /\ pd = "build" /\ segs # <<>> /\ DiffDone
  /\ DiffSize < MaxDiffSize
  /\ \E gap \in Gaps, heading \in BOOLEAN :
       LET start == IF LastSeg.hunks = <<>> THEN gap
                    ELSE LastHunk.start + NewLen(LastHunk) + gap
       IN segs' = [segs EXCEPT ![Len(segs)].hunks =
                     Append(@, [start |-> start, heading |-> heading,
                                body |-> <<>>])]
  /\ UNCHANGED <<cwdAtRepo, differences, pd>>

DiffAddLine ==
  /\ pd = "build" /\ segs # <<>> /\ LastSeg.hunks # <<>>
  /\ DiffSize < MaxDiffSize
  /\ \E k \in LineKinds :
       segs' = [segs EXCEPT ![Len(segs)].hunks[Len(LastSeg.hunks)].body =
                  Append(@, k)]
  /\ UNCHANGED <<cwdAtRepo, differences, pd>>

\* differences = await parseDiff(diff, repoPath)
DiffParse ==
  /\ pd = "build" /\ DiffDone
  /\ differences' = parseDiff(RenderDiff(segs), cwdAtRepo)
  /\ pd' = "parsed"
  /\ UNCHANGED <<segs, cwdAtRepo>>

NextDiff == DiffAddSegment \/ DiffAddHunk \/ DiffAddLine \/ DiffParse

InitDiff ==
  /\ Quiet /\ DepsOff /\ SecOff /\ CxOff /\ SaOff /\ UrlOff /\ WalkOff
  /\ GetDiffOff /\ ImportsOff
  /\ segs = <<>> /\ cwdAtRepo \in BOOLEAN /\ differences = <<>> /\ pd = "build"

SpecDiff ==
  InitDiff /\ [][NextDiff /\ UNCHANGED
           <<mainVars, depVars, secVars, cxVars, saVars, urlVars, wkVars,
             gdVars, imVars>>]_vars

\* ================================================================ claims
Ops == Range(plOps)
RecoveryOps == {"temp_branch", "hard_reset", "merge"}
DiskOps == {"rm", "clone", "clone_fail"}

\* C1: after a plain pull that succeeded, pullLatestChanges creates no temp
\* branch, performs no hard reset and runs no extra merge.
C1_NoRecoveryAfterSuccessfulPull ==
  "pull_ok" \in Ops => Ops \cap RecoveryOps = {}

\* C2: when the plain pull and the recovery procedure both failed, the merge
\* abort is attempted first and the call then fails with the "resolve
\* conflicts manually" error, also when the abort itself failed.
C2_ManualResolutionError ==
  ("pull_fail" \in Ops /\ "rec_fail" \in Ops) =>
     \/ pl = "abort"
     \/ /\ pl = "thrown"
        /\ plOps[Len(plOps)] \in {"abort", "abort_fail"}
        /\ plErr = Wrap(PullPrefix, ManualErr)

C2_Witness ==
  /\ pl = "thrown" /\ "pull_fail" \in Ops /\ "rec_fail" \in Ops
  /\ plOps[Len(plOps)] = "abort_fail"

\* C3: whenever the working copy has uncommitted changes of any kind when
\* pullLatestChanges starts, a stash has been performed by the time the
\* pull is attempted.
C3_StashBeforePull ==
  (pl = "pull" /\ initialStatus # {}) => "stash" \in Ops

\* C4: whenever pullLatestChanges has stashed, a stash pop has been
\* attempted by the time the call finishes, by return or by error.
C4_PopOnEveryPath ==
  (PullDone /\ "stash" \in Ops) => (Ops \cap {"pop", "pop_fail"} # {})

\* C5: after 'Cancel' in getRepository's prompt nothing is cloned and
\* nothing is removed; a dismissed URL input box starts no sync and shows
\* no error.
C5_CancelIsSilent ==
  /\ choice = "Cancel" => Range(fsOps) \cap DiskOps = {}
  /\ (run = 1 /\ cmd = "done" /\ escaped[1] = "none" /\ reportOpened[1] = 0)
       => (errorShown[1] = 0 /\ pl = "idle" /\ gr = "idle")

\* C6: 'Clone in New Location' with no directory selected makes
\* getRepository fail with 'No directory selected', and nothing is cloned
\* or removed.
C6_NoDirectorySelected ==
  dialogNone =>
    /\ Range(fsOps) \cap DiskOps = {}
    /\ GetRepoDone => (gr = "thrown" /\ grErr = NoDirErr)

\* C7: when fetch or pull fails while an existing working copy is updated,
\* getRepository fails with the error of that failure, without prompting
\* the user and without cloning or deleting.
C7_PullFailureSurfaces ==
  updErr \in {"fetch", "pull"} =>
    /\ "prompt" \notin Range(fsOps)
    /\ Range(fsOps) \cap DiskOps = {}
    /\ GetRepoDone => gr = "thrown"

\* C8: once getRepository has raised WORKSPACE_SWITCHED in a run, the
\* sentinel is the error that leaves getRepository and analyze, the handler
\* re-invokes the command, and that run shows no error and opens no report.
C8_SentinelReinvokes ==
  \A r \in Runs : sentinelRaised[r] =>
    /\ errorShown[r] = 0 /\ reportOpened[r] = 0
    /\ r < run => reinvoked[r]
    /\ r = run =>
         /\ cmd = "progress"
         /\ an \in {"sync", "thrown"}
         /\ an = "sync" => (gr \in {"outerCatch", "thrown"} /\ grErr = Sentinel)
         /\ an = "thrown" => anErr = Sentinel

C8_Witness ==
  /\ run = 2 /\ sentinelRaised[1] /\ reinvoked[1] /\ wsLoc = "new"
  /\ errorShown[1] = 0 /\ reportOpened[1] = 0

\* C9: an error other than WORKSPACE_SWITCHED that leaves analyze ends the
\* run with exactly one 'Analysis failed' notification and no results panel.
C9_SingleFailureNotification ==
  /\ (cmd = "progress" /\ an = "thrown" /\ anErr # Sentinel)
       => (errorShown[run] = 0 /\ reportOpened[run] = 0)
  /\ \A r \in Runs : escaped[r] = "other" =>
       /\ errorShown[r] = 1 /\ reportOpened[r] = 0
       /\ r = run /\ cmd = "done"

C9_Witness ==
  /\ cmd = "done" /\ escaped[run] = "other"
  /\ errorShown[run] = 1 /\ reportOpened[run] = 0

\* C10: a failure while scanning a file never aborts the run: analyze fails
\* only at a step other than a file scan, every selected file has been
\* scanned when the architecture scan starts, and the architecture scan has
\* run before analyze returns.
FileFailures == {"inaccessible", "securityFailed", "optimizationFailed", "bothFailed"}

C10_FileFailureDoesNotAbort ==
  /\ an = "thrown" => anFailAt \in {"sync", "info", "diff", "findFiles", "status"}
  /\ an = "scan" => (todo # {} /\ \A f \in toScan \ todo : scanned[f] # "none")
  /\ an \in {"arch", "status", "ret"} =>
       (todo = {} /\ \A f \in toScan : scanned[f] # "none")
  /\ an \in {"status", "ret"} => archRan

C10_Witness ==
  /\ an = "ret" /\ archRan /\ toScan = {1, 2}
  /\ scanned[1] \in FileFailures /\ scanned[2] = "scanned"

\* C11: whenever a run has synchronized an existing working copy (by
\* getRepository's update path or by analyze's direct pull) and HEAD after
\* the sync differs from HEAD before it, a visual diff between those two
\* commits has been attempted by the time analyze returns.
C11_VisualDiffAfterSync ==
  (an = "ret" /\ syncFrom # -1 /\ syncFrom # head)
     => <<syncFrom, head>> \in visual

\* ---- parseDiff: what unified-diff semantics assign to a segment
HasChange(s) ==
  \E i \in 1 .. Len(s.hunks) :
    \E k \in 1 .. Len(s.hunks[i].body) : s.hunks[i].body[k] \in ChangeLines
SegsWithChanges == SelectSeq(segs, HasChange)

\* The new-side line numbers of the added lines of one hunk, in order:
\* its declared start plus the non-removal body lines before each.
ExpectedHunkAdds(h) ==
  LET at == SelectSeq([i \in 1 .. Len(h.body) |-> i],
                      LAMBDA i : h.body[i] \in {"add", "addAt"})
  IN [k \in 1 .. Len(at) |->
        h.start + Cardinality({j \in 1 .. at[k] - 1 : h.body[j] # "remove"})]

ExpectedAdds(s) ==
  Concat([i \in 1 .. Len(s.hunks) |-> ExpectedHunkAdds(s.hunks[i])])

AddNumbers(entry) ==
  LET adds == SelectSeq(entry.changes, LAMBDA c : c.type = "add")
  IN [k \in 1 .. Len(adds) |-> adds[k].lineNumber]

\* C12: within each file entry parseDiff returns, the line numbers of the
\* 'add' changes are strictly increasing, and each is the declared new-side
\* start of its hunk plus the number of non-removal lines before it in the
\* body of that hunk.
C12_AddLineNumbers ==
  pd = "parsed" =>
    \A i \in 1 .. Len(differences) :
      LET adds == AddNumbers(differences[i])
          want == ExpectedAdds(SegsWithChanges[i])
      IN /\ \A j, k \in 1 .. Len(adds) : j < k => adds[j] < adds[k]
         /\ \A j \in 1 .. Len(adds) : j <= Len(want) /\ adds[j] = want[j]

\* The types unified-diff semantics give the body lines of a segment that
\* start with "+" or "-", in order.
ExpectedTypes(s) ==
  LET body == Concat([i \in 1 .. Len(s.hunks) |-> s.hunks[i].body])
      marked == SelectSeq(body, LAMBDA k : k \in ChangeLines)
  IN [k \in 1 .. Len(marked) |->
        IF marked[k] = "remove" THEN "remove" ELSE "add"]

ChangeTypes(entry) ==
  [k \in 1 .. Len(entry.changes) |-> entry.changes[k].type]

\* C13: every Change parseDiff produces has type 'add' or 'remove', never
\* 'modify', and the hunk body lines of a file yield Changes exactly when
\* they start with '+' or '-': one Change per such line, in order, none for
\* context lines.
C13_ChangePerMarkedLine ==
  pd = "parsed" =>
    \A i \in 1 .. Len(differences) :
      /\ \A k \in 1 .. Len(differences[i].changes) :
           differences[i].changes[k].type \in {"add", "remove"}
      /\ ChangeTypes(differences[i]) = ExpectedTypes(SegsWithChanges[i])

\* C14: parseDiff returns an entry for exactly the file segments that
\* yield a change (none for a segment without hunks or whose hunks hold no
\* added or removed line), and every entry has a non-empty change list.
C14_NoEmptyEntries ==
  pd = "parsed" =>
    /\ Len(differences) = Len(SegsWithChanges)
    /\ \A i \in 1 .. Len(differences) : differences[i].changes # <<>>

C14_Witness ==
  /\ pd = "parsed" /\ Len(segs) = 2 /\ Len(differences) = 1
  /\ \E i \in 1 .. 2 : segs[i].hunks = <<>>

\* C15: the file recorded for a segment is the new-side path (b/...) of its
\* "diff --git" header, made relative to the repository as parseDiff does,
\* also when the old-side and new-side paths differ (a rename).
C15_NewSidePath ==
  pd = "parsed" =>
    \A i \in 1 .. Len(differences) :
      differences[i].file
        = PathRelative(cwdAtRepo, <<PathTok(SegsWithChanges[i].new)>>)

\* ---- the report's section on recent changes
\* generateDifferencesSection: nothing for an empty list, else the
\* "Recent Changes" heading and, per entry, the file and one
\* "Line n: type" paragraph per change.
generateDifferencesSection(ds) ==
  IF Len(ds) = 0 THEN [title |-> "", files |-> <<>>]
  ELSE [title |-> "Recent Changes",
        files |-> [i \in 1 .. Len(ds) |->
                     [file |-> ds[i].file,
                      lines |-> [k \in 1 .. Len(ds[i].changes) |->
                                   <<ds[i].changes[k].lineNumber,
                                     ds[i].changes[k].type>>]]]]

\* The diff of a commit that changes one line of one file: one segment,
\* not a rename, one hunk, whose marked lines are the added line, the
\* removed line, or the old line removed and the new line added.
OneLineCommit ==
  /\ Len(segs) = 1 /\ segs[1].old = segs[1].new /\ Len(segs[1].hunks) = 1
  /\ SelectSeq(segs[1].hunks[1].body, LAMBDA k : k # "context")
       \in {<<"add">>, <<"remove">>, <<"remove", "add">>}

\* C16: for a commit that changes one line in one file, parseDiff returns
\* exactly one file entry holding exactly one change, and the report's
\* "Recent Changes" section lists that file.
C16_OneLineEndToEnd ==
  (pd = "parsed" /\ OneLineCommit) =>
    /\ Len(differences) = 1
    /\ Len(differences[1].changes) = 1
    /\ LET section == generateDifferencesSection(differences)
       IN /\ section.title = "Recent Changes"
          /\ \E i \in 1 .. Len(section.files) :
               section.files[i].file[Len(section.files[i].file)]
                 = PathTok(segs[1].new)

\* =========================================== findCircularDependencies
\* A dependency map has modules as keys and sets of imported names as
\* values; names are 1 .. NumModules.
Names == 1 .. NumModules

\* dependencies.get(module) || new Set()
Deps(dependencies, module) ==
  IF module \in DOMAIN dependencies THEN dependencies[module] ELSE {}

\* The order a for-of loop visits a set of names in.
RECURSIVE InOrder(_)
InOrder(S) == IF S = {} THEN <<>> ELSE <<Min(S)>> \o InOrder(S \ {Min(S)})

\* isCircular with one visited set shared by the whole traversal instead of
\* a copy per path: <<result, visited afterwards>>.
RECURSIVE WalkShared(_, _, _)
RECURSIVE WalkSharedDeps(_, _, _)
WalkShared(module, visited, dependencies) ==
  IF module \in visited THEN <<TRUE, visited>>
  ELSE WalkSharedDeps(InOrder(Deps(dependencies, module)),
                      visited \cup {module}, dependencies)
WalkSharedDeps(rest, visited, dependencies) ==
  IF rest = <<>> THEN <<FALSE, visited>>
  ELSE LET r == WalkShared(Head(rest), visited, dependencies)
       IN IF r[1] THEN r ELSE WalkSharedDeps(Tail(rest), r[2], dependencies)

isCircular_SharedVisited(module, visited, dependencies) ==
  WalkShared(module, visited, dependencies)[1]

\* isCircular without the result of its revisit test: a module already on
\* the path ends the walk without reporting a cycle.
RECURSIVE isCircular_NoRevisit(_, _, _)
isCircular_NoRevisit(module, visited, dependencies) ==
  IF module \in visited THEN FALSE
  ELSE \E dep \in Deps(dependencies, module) :
         isCircular_NoRevisit(dep, visited \cup {module}, dependencies)

\* isCircular: true when module is already on the path walked so far, else
\* whether some import leads to such a revisit; every recursive call gets
\* its own copy of the path's visited set.
RECURSIVE isCircular(_, _, _)
isCircular(module, visited, dependencies) ==
  IF module \in visited THEN TRUE
  ELSE \E dep \in Deps(dependencies, module) :
         isCircular(dep, visited \cup {module}, dependencies)

findCircularDependencies(dependencies) ==
  {module \in DOMAIN dependencies : isCircular(module, {}, dependencies)}

\* dependencies.set(relativePath, new Set(imports)) for one more file
DepsSet ==
  /\ fc = "build"
  /\ \E module \in Names \ DOMAIN depMap, imports \in SUBSET Names :
       depMap' = [m \in DOMAIN depMap \cup {module} |->
                    IF m = module THEN imports ELSE depMap[m]]
  /\ UNCHANGED <<circular, fc>>

\* circularDeps = this.findCircularDependencies(dependencies)
DepsFindCircular ==
  /\ fc = "build"
  /\ circular' = findCircularDependencies(depMap)
  /\ fc' = "found"
  /\ UNCHANGED depMap

NextDeps == DepsSet \/ DepsFindCircular

InitDeps ==
  /\ Quiet /\ DiffOff /\ SecOff /\ CxOff /\ SaOff /\ UrlOff /\ WalkOff
  /\ GetDiffOff /\ ImportsOff
  /\ depMap = <<>> /\ circular = {} /\ fc = "build"

SpecDeps ==
  InitDeps /\ [][NextDeps /\ UNCHANGED
           <<mainVars, diffVars, secVars, cxVars, saVars, urlVars, wkVars,
             gdVars, imVars>>]_vars

\* ---- what the import graph itself says
\* The names reachable from the names in S by following imports.
RECURSIVE Closure(_)
Closure(S) ==
  LET N == S \cup UNION {Deps(depMap, m) : m \in S}
  IN IF N = S THEN S ELSE Closure(N)

\* module imports itself, directly or through other modules
OnCycle(module) == module \in Closure(Deps(depMap, module))

\* C17: findCircularDependencies flags every module of the map that
\* directly or transitively imports itself, self-loops included.
C17_CycleMembersFlagged ==
  fc = "found" =>
    \A module \in DOMAIN depMap : OnCycle(module) => module \in circular

C17_Witness ==
  /\ fc = "found"
  /\ \E a, b \in DOMAIN depMap :
       /\ a # b /\ a \in depMap[b] /\ b \in depMap[a] /\ {a, b} \subseteq circular
       /\ \E c \in DOMAIN depMap \ {a, b} : c \in depMap[c] /\ c \in circular

Acyclic == \A module \in DOMAIN depMap : ~OnCycle(module)

\* C18: for an acyclic dependency map, also one where a module is reachable
\* from another by two different paths, findCircularDependencies flags no
\* module.
C18_AcyclicNotFlagged ==
  (fc = "found" /\ Acyclic) => circular = {}

C18_Witness ==
  /\ fc = "found" /\ Acyclic /\ circular = {}
  /\ \E a, b, c \in DOMAIN depMap :
       /\ a # b /\ b # c /\ a # c
       /\ {b, c} \subseteq depMap[a] /\ c \in depMap[b]

\* C19: a module is marked circular only if it transitively imports
\* itself; a module that merely depends on modules forming a cycle, without
\* lying on a cycle, is not marked.
C19_OnlyCycleMembersFlagged ==
  fc = "found" => \A module \in circular : OnCycle(module)

\* ======================================================== checkSecrets
\* A line is a sequence of tokens: a keyword of one of the three secret
\* patterns ("secret": api_key, apikey, secret, password, credentials;
\* "cloud": aws, firebase, oauth; "privkey": private_key, ssh_key), "=" (an
\* = or :), "q" (a quoted string) and "x" (other text). Offsets count tokens.
secretPatterns ==
  << [keyword |-> "secret", message |-> "Potential hardcoded secret detected"],
     [keyword |-> "cloud",
      message |-> "Cloud service credentials potentially exposed"],
     [keyword |-> "privkey", message |-> "Private key potentially exposed"] >>

\* The lines a scanned file is made of.
SourceLines ==
  { <<"secret", "=", "q">>,            \* apiKey = "abc123"
    <<"x", "secret", "=", "q">>,       \* const apiKey = "abc123"
    <<"secret", "=", "q", "x">>,       \* apiKey = "abc123"; // note
    <<"x", "x", "x", "secret", "=", "q">>,
    <<"cloud", "secret", "=", "q">>,   \* aws_secret = "abc123"
    <<"secret", "x">>,                 \* a keyword without an assignment
    <<"x">> }

\* keyword.*?[=:]\s*['"][^'"]*['"] searched in line from offset from: the
\* offset just past the leftmost match, 0 when there is none.
MatchEnd(keyword, line, from) ==
  LET Ends(i) == {j + 1 : j \in {j \in i + 1 .. Len(line) - 1 :
                                   line[j] = "=" /\ line[j + 1] = "q"}}
      starts == {i \in from + 1 .. Len(line) :
                   line[i] = keyword /\ Ends(i) # {}}
  IN IF starts = {} THEN 0 ELSE Min(Ends(Min(starts)))

\* RegExp.prototype.test of a pattern with the g flag: the search starts at
\* the pattern's lastIndex, a match moves lastIndex past it, a failure
\* resets lastIndex to 0. <<result, lastIndex afterwards>>.
Test(keyword, line, lastIndex) ==
  IF lastIndex > Len(line) THEN <<FALSE, 0>>
  ELSE LET end == MatchEnd(keyword, line, lastIndex)
       IN IF end = 0 THEN <<FALSE, 0>> ELSE <<TRUE, end>>

Issue(message, lineNumber) ==
  [type |-> "secret-exposure", severity |-> "critical",
   message |-> message, line |-> lineNumber + 1]

\* The inner forEach: the patterns from p on tested against one line;
\* <<issues pushed, lastIndex of every pattern afterwards>>.
RECURSIVE TestPatterns(_, _, _, _)
TestPatterns(p, line, lineNumber, lastIndex) ==
  IF p > Len(secretPatterns) THEN <<(<<>>), lastIndex>>
  ELSE LET t == Test(secretPatterns[p].keyword, line, lastIndex[p])
           rest == TestPatterns(p + 1, line, lineNumber,
                                [lastIndex EXCEPT ![p] = t[2]])
       IN <<(IF t[1] THEN <<Issue(secretPatterns[p].message, lineNumber)>>
             ELSE <<>>) \o rest[1], rest[2]>>

\* The outer forEach over content.split('\n'), lineNumber counted from 0.
RECURSIVE ScanLines(_, _, _)
ScanLines(lines, lineNumber, lastIndex) ==
  IF lineNumber >= Len(lines) THEN <<>>
  ELSE LET r == TestPatterns(1, lines[lineNumber + 1], lineNumber, lastIndex)
       IN r[1] \o ScanLines(lines, lineNumber + 1, r[2])

\* checkSecrets(content, issues): the issues it pushes; the three pattern
\* objects are created by the call, with lastIndex 0.
checkSecrets(content) ==
  ScanLines(content, 0, [p \in 1 .. Len(secretPatterns) |-> 0])

\* One more line of the file being scanned.
SecAddLine ==
  /\ sc = "build" /\ Len(fileContent) < MaxFileLines
  /\ \E l \in SourceLines : fileContent' = Append(fileContent, l)
  /\ UNCHANGED <<issues, sc>>

\* analyzeFile: this.checkSecrets(content, issues)
SecScan ==
  /\ sc = "build"
  /\ issues' = checkSecrets(fileContent)
  /\ sc' = "scanned"
  /\ UNCHANGED fileContent

NextSec == SecAddLine \/ SecScan

InitSec ==
  /\ Quiet /\ DiffOff /\ DepsOff /\ CxOff /\ SaOff /\ UrlOff /\ WalkOff
  /\ GetDiffOff /\ ImportsOff
  /\ fileContent = <<>> /\ issues = <<>> /\ sc = "build"

SpecSec ==
  InitSec /\ [][NextSec /\ UNCHANGED
           <<mainVars, diffVars, depVars, cxVars, saVars, urlVars, wkVars,
             gdVars, imVars>>]_vars

\* A line holds a hardcoded-secret assignment such as apiKey = "abc123".
HasSecret(l) == MatchEnd("secret", l, 0) # 0
MatchesAny(l) ==
  \E p \in 1 .. Len(secretPatterns) :
    MatchEnd(secretPatterns[p].keyword, l, 0) # 0

\* C20: secret scanning is per line and stateless: every line holding a
\* hardcoded-secret assignment yields a critical secret-exposure finding
\* with that line's number, whatever lines precede it, and a line matching
\* no secret pattern yields no finding.
C20_SecretsPerLine ==
  sc = "scanned" =>
    \A n \in 1 .. Len(fileContent) :
      /\ HasSecret(fileContent[n]) =>
           \E k \in 1 .. Len(issues) :
             /\ issues[k].line = n /\ issues[k].type = "secret-exposure"
             /\ issues[k].severity = "critical"
      /\ ~MatchesAny(fileContent[n]) =>
           \A k \in 1 .. Len(issues) : issues[k].line # n

\* ==================================================== analyzeComplexity
\* A line of the analysed text is a sequence of tokens: "function" (the
\* line starts a function), "{", "}" and "x" (other text).
BraceLines ==
  { <<"x">>, <<"{">>, <<"}">>,
    <<"{", "{">>,                      \* if (a) { if (b) {
    <<"}", "}">>,                      \* } }
    <<"}", "{">>,                      \* } else {
    <<"function", "{">> }              \* function f() {
FunctionLines == { <<"x">>, <<"}">>, <<"function", "{">> }

\* The brace depth after the tokens of a line, starting from depth d, and
\* the largest depth on the way.
RECURSIVE DepthAfter(_, _)
DepthAfter(line, d) ==
  IF line = <<>> THEN d
  ELSE DepthAfter(Tail(line), IF Head(line) = "{" THEN d + 1
                              ELSE IF Head(line) = "}" THEN d - 1 ELSE d)
RECURSIVE DepthMax(_, _)
DepthMax(line, d) ==
  IF line = <<>> THEN d
  ELSE LET e == DepthAfter(<<Head(line)>>, d)
       IN IF DepthMax(Tail(line), e) > d THEN DepthMax(Tail(line), e) ELSE d

\* The "Long function detected" suggestion; its line is functionStart.
LongFunction(start) ==
  [type |-> "complexity", impact |-> "medium", hasLine |-> TRUE,
   line |-> start]

\* The "High nesting level detected" suggestion, which names no line.
HighNesting ==
  [type |-> "complexity", impact |-> "high", hasLine |-> FALSE, line |-> 0]

\* One iteration of the loop over the lines, at index lineIdx, counting a
\* line's braces once.
CxLine ==
  /\ cx = "loop" /\ lineIdx < cxMax
  /\ \E line \in cxInput :
       LET started == line[1] = "function"
           fnStart == IF started THEN lineIdx ELSE functionStart
           fnLines == IF started THEN 0 ELSE functionLines
           opened == IF "{" \in Range(line) THEN nestingLevel + 1
                     ELSE nestingLevel
           level == IF "}" \in Range(line) THEN opened - 1 ELSE opened
           closes == "}" \in Range(line) /\ fnStart # -1 /\ level = 0
       IN /\ nestingLevel' = level
          /\ maxNestingLevel' =
               IF level > maxNestingLevel THEN level ELSE maxNestingLevel
          /\ suggestions' =
               IF closes /\ fnLines > LongLimit
               THEN Append(suggestions, LongFunction(fnStart))
               ELSE suggestions
          /\ about' = IF closes /\ fnLines > LongLimit
                      THEN Append(about, fnStart + 1) ELSE about
          /\ functionStart' = IF closes THEN -1 ELSE fnStart
          /\ functionLines' =
               IF closes \/ fnStart = -1 THEN fnLines ELSE fnLines + 1
          /\ depth' = DepthAfter(line, depth)
          /\ maxDepth' = IF DepthMax(line, depth) > maxDepth
                         THEN DepthMax(line, depth) ELSE maxDepth
  /\ lineIdx' = lineIdx + 1
  /\ UNCHANGED <<cx, cxInput, cxMax>>

\* The end of the text: the check of maxNestingLevel after the loop.
CxFinish ==
  /\ cx = "loop" /\ lineIdx >= 1
  /\ suggestions' = IF maxNestingLevel > NestLimit
                    THEN Append(suggestions, HighNesting) ELSE suggestions
  /\ about' = IF maxNestingLevel > NestLimit THEN Append(about, 0) ELSE about
  /\ cx' = "done"
  /\ UNCHANGED <<cxInput, cxMax, lineIdx, nestingLevel, maxNestingLevel,
                 functionStart, functionLines, depth, maxDepth>>

NextCx == CxLine \/ CxFinish

\* analyzeComplexity before its loop, for a text of at most max lines
\* drawn from input.
CxStart(input, max) ==
  /\ cxInput = input /\ cxMax = max /\ cx = "loop" /\ lineIdx = 0
  /\ nestingLevel = 0 /\ maxNestingLevel = 0
  /\ functionStart = -1 /\ functionLines = 0
  /\ suggestions = <<>> /\ about = <<>> /\ depth = 0 /\ maxDepth = 0

InitNest ==
  /\ Quiet /\ DiffOff /\ DepsOff /\ SecOff /\ SaOff /\ UrlOff /\ WalkOff
  /\ GetDiffOff /\ ImportsOff
  /\ CxStart(BraceLines, MaxTextLines)

SpecNest ==
  InitNest /\ [][NextCx /\ UNCHANGED
           <<mainVars, diffVars, depVars, secVars, saVars, urlVars, wkVars,
             gdVars, imVars>>]_vars

\* C21: analyzeComplexity reports high-impact excessive nesting for every
\* text whose brace nesting reaches 5 levels and reports none for a text
\* whose brace nesting never exceeds 3 levels, however the braces are
\* spread over the lines.
C21_NestingDepth ==
  cx = "done" =>
    /\ maxDepth >= 5 => HighNesting \in Range(suggestions)
    /\ maxDepth <= 3 => HighNesting \notin Range(suggestions)

\* ------------------------------------------- SecurityAnalyzer.analyzeFile
\* The five checks in the order analyzeFile calls them; each issue carries
\* the name of its check as type.
Checks == <<"secret", "vulnerable-dependency", "insecure-configuration",
            "input-validation", "authorization">>

\* The issues check c pushes: one per matching (line, pattern), in line
\* order; a vulnerable package carries no line.
Findings(c) ==
  [k \in 1..saCount[c] |->
     [type |-> c, line |-> IF c = "vulnerable-dependency" THEN 0 ELSE k]]

\* issues.push(...) once per finding
PushAll_Overwrite(list, found) == found
PushAll(list, found) == list \o found

\* analyzeFile builds the argument array of Promise.all: the next check is
\* called. An async function runs up to its first await inside the call, so
\* the four pattern checks push all their issues here; the dependency check
\* returns at once for a file that is not package.json and otherwise stops
\* at its await of readFile.
SaCall ==
  /\ sa = "calls"
  /\ \E k \in DOMAIN Checks :
       LET c == Checks[k] IN
       /\ saTask[c] = "new"
       /\ \A j \in 1..(k - 1) : saTask[Checks[j]] # "new"
       /\ IF c = "vulnerable-dependency"
            THEN /\ \E packageJson \in BOOLEAN :
                      saTask' = [saTask EXCEPT
                                   ![c] = IF packageJson THEN "read"
                                          ELSE "skipped"]
                 /\ UNCHANGED saIssues
            ELSE /\ saIssues' = PushAll(saIssues, Findings(c))
                 /\ saTask' = [saTask EXCEPT ![c] = "done"]
  /\ UNCHANGED <<saCount, sa>>

\* checkVulnerableDependencies resumes after readFile: reading or parsing
\* may throw, which its catch logs; otherwise it awaits
\* checkDependencyVulnerabilities. A suspended call resumes only once the
\* synchronous part of analyzeFile has reached its own await.
SaRead ==
  /\ sa = "await"
  /\ saTask["vulnerable-dependency"] = "read"
  /\ \E ok \in BOOLEAN :
       saTask' = [saTask EXCEPT
                    !["vulnerable-dependency"] = IF ok THEN "vuln"
                                                 ELSE "failed"]
  /\ UNCHANGED <<saCount, saIssues, sa>>

\* checkVulnerableDependencies resumes with the vulnerable packages and
\* pushes one issue for each.
SaVuln ==
  /\ sa = "await"
  /\ saTask["vulnerable-dependency"] = "vuln"
  /\ saIssues' = PushAll(saIssues, Findings("vulnerable-dependency"))
  /\ saTask' = [saTask EXCEPT !["vulnerable-dependency"] = "done"]
  /\ UNCHANGED <<saCount, sa>>

\* All five checks have been called: analyzeFile awaits Promise.all.
SaAwait ==
  /\ sa = "calls"
  /\ \A c \in Range(Checks) : saTask[c] # "new"
  /\ sa' = "await"
  /\ UNCHANGED <<saCount, saTask, saIssues>>

\* Every promise has settled: analyzeFile returns issues.
SaReturn ==
  /\ sa = "await"
  /\ \A c \in Range(Checks) : saTask[c] \in {"done", "skipped", "failed"}
  /\ sa' = "done"
  /\ UNCHANGED <<saCount, saTask, saIssues>>

NextSa == SaCall \/ SaRead \/ SaVuln \/ SaAwait \/ SaReturn

InitSa ==
  /\ Quiet /\ DiffOff /\ DepsOff /\ SecOff /\ CxOff /\ UrlOff /\ WalkOff
  /\ GetDiffOff /\ ImportsOff
  /\ saCount \in [Range(Checks) -> 0..MaxFindings]
  /\ saTask = [c \in Range(Checks) |-> "new"]
  /\ saIssues = <<>> /\ sa = "calls"

SpecSa ==
  InitSa /\ [][NextSa /\ UNCHANGED
           <<mainVars, diffVars, depVars, secVars, cxVars, urlVars, wkVars,
             gdVars, imVars>>]_vars

\* the multiset of the elements of a list
BagOf(list) ==
  [x \in Range(list) |-> Cardinality({i \in DOMAIN list : list[i] = x})]
\* what the checks that have pushed found, taken in the order of the calls
FoundBy(k) ==
  IF saTask[Checks[k]] = "done" THEN Findings(Checks[k]) ELSE <<>>
FoundSoFar == Concat([k \in DOMAIN Checks |-> FoundBy(k)])

\* C22: at every point of the concurrently started checks the shared list
\* holds exactly the findings of the checks that have pushed, each once:
\* nothing is lost, duplicated or half written, and the returned multiset is
\* the union of what every check found, whichever check pushes last.
C22_FindingsUnion ==
  sa # "off" => BagOf(saIssues) = BagOf(FoundSoFar)

\* analyzeFile has returned the issues of all five checks, the dependency
\* check having pushed after the pattern checks that were called after it.
C22_Witness ==
  /\ sa = "done"
  /\ \A c \in Range(Checks) : saTask[c] = "done" /\ saCount[c] = MaxFindings
  /\ saIssues[1].type = "secret"
  /\ saIssues[Len(saIssues)].type = "vulnerable-dependency"
\* ------------------------------------------- showInputBox / validateInput
\* A URL is a sequence of parts; no part, and no run of parts, spells
\* 'https://', 'github.com' or 'gitlab.com' other than the parts so named.
UrlParts == {"https://", "http://", "github.com", "gitlab.com", "example.org",
             "/repo"}

\* input.startsWith(prefix), input.includes(part)
StartsWith(input, prefix) == input # <<>> /\ Head(input) = prefix
Includes(input, part) == part \in Range(input)

validateInput_AnyHost(input) ==
  IF input = <<>> THEN "Repository URL is required"
  ELSE IF ~StartsWith(input, "https://") THEN "URL must start with https://"
  ELSE "null"
validateInput(input) ==
  IF input = <<>> THEN "Repository URL is required"
  ELSE IF ~StartsWith(input, "https://") THEN "URL must start with https://"
  ELSE IF ~Includes(input, "github.com") /\ ~Includes(input, "gitlab.com")
    THEN "Only GitHub and GitLab repositories are supported"
  ELSE "null"

\* The user edits the text; the input box calls validateInput and shows
\* its message.
UrlType ==
  /\ urlBox = "open" /\ Len(urlInput) < MaxUrlLen
  /\ \E part \in UrlParts : urlInput' = Append(urlInput, part)
  /\ urlMsg' = validateInput(urlInput')
  /\ urlEntered' = FALSE
  /\ UNCHANGED <<urlBox, urlStarted>>

\* The user presses Enter: the box resolves with the text only when
\* validateInput returns null; the handler then passes it to analyze.
UrlEnter ==
  /\ urlBox = "open"
  /\ urlMsg' = validateInput(urlInput)
  /\ urlEntered' = TRUE
  /\ IF urlMsg' = "null"
       THEN urlBox' = "accepted" /\ urlStarted' = TRUE
       ELSE UNCHANGED <<urlBox, urlStarted>>
  /\ UNCHANGED urlInput

\* The user dismisses the box: repoUrl is undefined and the handler returns.
UrlDismiss ==
  /\ urlBox = "open"
  /\ urlBox' = "dismissed"
  /\ UNCHANGED <<urlInput, urlMsg, urlEntered, urlStarted>>

NextUrl == UrlType \/ UrlEnter \/ UrlDismiss

InitUrl ==
  /\ Quiet /\ DiffOff /\ DepsOff /\ SecOff /\ CxOff /\ SaOff /\ WalkOff
  /\ GetDiffOff /\ ImportsOff
  /\ urlInput = <<>> /\ urlMsg = "null" /\ urlEntered = FALSE
  /\ urlBox = "open" /\ urlStarted = FALSE

SpecUrl ==
  InitUrl /\ [][NextUrl /\ UNCHANGED
           <<mainVars, diffVars, depVars, secVars, cxVars, saVars, wkVars,
             gdVars, imVars>>]_vars

\* non-empty, begins with https:// and mentions github.com or gitlab.com
WellFormedUrl(input) ==
  /\ Len(input) > 0
  /\ input[1] = "https://"
  /\ \E i \in DOMAIN input : input[i] \in {"github.com", "gitlab.com"}

\* C23: the entered URL is accepted, and analysis started, exactly when it
\* is non-empty, begins with https:// and mentions github.com or
\* gitlab.com; any other entered text leaves the box open with a validation
\* message and starts nothing.
C23_UrlAccepted ==
  /\ urlStarted <=> urlBox = "accepted"
  /\ urlBox = "accepted" => WellFormedUrl(urlInput)
  /\ urlBox = "open" /\ urlEntered =>
       ~WellFormedUrl(urlInput) /\ urlMsg # "null" /\ ~urlStarted
  /\ urlBox = "dismissed" => ~urlStarted

\* An https URL of another host was refused, then one mentioning gitlab.com
\* after another host was accepted.
C23_Witness ==
  /\ urlBox = "accepted"
  /\ urlInput = <<"https://", "example.org", "gitlab.com">>
\* -------------------------- findCircularDependencies, one step at a time
\* The recursion of isCircular as a call stack. A frame holds the module,
\* its own visited set, and the dependencies its for-loop has yet to take
\* once the frame is past the visited test.
Frame(module, visited) ==
  [module |-> module, visited |-> visited, at |-> "entry", rest |-> <<>>]

\* visited.has(module)
Revisited_Never(module, visited) == FALSE
Revisited(module, visited) == module \in visited

\* A path that visits no module twice holds at most every name once, so the
\* stack never needs more frames than this.
MaxFrames == NumModules + 1

\* for (const [module] of dependencies): isCircular(module, new Set(), ...)
WkCall ==
  /\ wk = "loop" /\ wkStack = <<>> /\ wkRet = "none" /\ wkTodo # <<>>
  /\ wkStack' = <<Frame(Head(wkTodo), {})>>
  /\ UNCHANGED <<wkMap, wkTodo, wkRet, wkCircular, wk>>

\* if (visited.has(module)) return true; visited.add(module); deps = ...
WkEnter ==
  /\ wk = "loop" /\ wkStack # <<>> /\ wkRet = "none"
  /\ LET n == Len(wkStack)
         top == wkStack[n]
     IN /\ top.at = "entry"
        /\ IF Revisited(top.module, top.visited)
             THEN /\ wkStack' = SubSeq(wkStack, 1, n - 1)
                  /\ wkRet' = "true"
             ELSE /\ wkStack' =
                       [wkStack EXCEPT
                          ![n] = [top EXCEPT
                                    !.visited = @ \cup {top.module},
                                    !.at = "loop",
                                    !.rest = InOrder(Deps(wkMap, top.module))]]
                  /\ wkRet' = "none"
  /\ UNCHANGED <<wkMap, wkTodo, wkCircular, wk>>

\* for (const dep of deps): isCircular(dep, new Set(visited), ...), or
\* return false when the loop is over
WkStep ==
  /\ wk = "loop" /\ wkStack # <<>> /\ wkRet = "none"
  /\ LET n == Len(wkStack)
         top == wkStack[n]
     IN /\ top.at = "loop"
        /\ IF top.rest = <<>>
             THEN /\ wkStack' = SubSeq(wkStack, 1, n - 1)
                  /\ wkRet' = "false"
             ELSE /\ n < MaxFrames
                  /\ wkStack' =
                       Append([wkStack EXCEPT ![n].rest = Tail(top.rest)],
                              Frame(Head(top.rest), top.visited))
                  /\ wkRet' = "none"
  /\ UNCHANGED <<wkMap, wkTodo, wkCircular, wk>>

\* A call made from the for-loop of isCircular has returned: true is passed
\* on, false lets the loop go on.
WkBack ==
  /\ wk = "loop" /\ wkStack # <<>> /\ wkRet # "none"
  /\ IF wkRet = "true"
       THEN /\ wkStack' = SubSeq(wkStack, 1, Len(wkStack) - 1)
            /\ wkRet' = "true"
       ELSE /\ wkStack' = wkStack
            /\ wkRet' = "none"
  /\ UNCHANGED <<wkMap, wkTodo, wkCircular, wk>>

\* The call made by findCircularDependencies has returned:
\* if (...) circular.add(module)
WkAdd ==
  /\ wk = "loop" /\ wkStack = <<>> /\ wkRet # "none"
  /\ wkCircular' = IF wkRet = "true" THEN wkCircular \cup {Head(wkTodo)}
                   ELSE wkCircular
  /\ wkTodo' = Tail(wkTodo)
  /\ wkRet' = "none"
  /\ UNCHANGED <<wkMap, wkStack, wk>>

\* return circular
WkReturn ==
  /\ wk = "loop" /\ wkStack = <<>> /\ wkRet = "none" /\ wkTodo = <<>>
  /\ wk' = "done"
  /\ UNCHANGED <<wkMap, wkTodo, wkStack, wkRet, wkCircular>>

NextWalk == WkCall \/ WkEnter \/ WkStep \/ WkBack \/ WkAdd \/ WkReturn

\* the import sets of at most two names, and of at most one
FewNames == {{}} \cup {{x, y} : x, y \in Names}
OneName == {{}} \cup {{x} : x \in Names}
\* what module m may import in the maps tried
ImportsOf(m) == IF m = 1 THEN FewNames ELSE OneName
WalkMaps ==
  UNION {{f \in [keys -> FewNames] : \A m \in keys : f[m] \in ImportsOf(m)} :
           keys \in SUBSET Names}

\* The maps tried: some names are keys; module 1 imports up to two names
\* and every other key up to one, which need not be keys and may be the
\* module itself. They hold self-imports, cycles of every length and
\* modules reached along two paths.
InitWalk ==
  /\ Quiet /\ DiffOff /\ DepsOff /\ SecOff /\ CxOff /\ SaOff /\ UrlOff
  /\ GetDiffOff /\ ImportsOff
  /\ wkMap \in WalkMaps
  /\ wkTodo = InOrder(DOMAIN wkMap)
  /\ wkStack = <<>> /\ wkRet = "none" /\ wkCircular = {} /\ wk = "loop"

StepWalk ==
  NextWalk /\ UNCHANGED
    <<mainVars, diffVars, depVars, secVars, cxVars, saVars, urlVars, gdVars,
      imVars>>

\* The function is synchronous: once called, the engine runs it on.
SpecWalk == InitWalk /\ [][StepWalk]_vars /\ WF_vars(StepWalk)

\* C24: for every finite dependency map, cycles and self-imports included,
\* every call of isCircular ends, so findCircularDependencies eventually
\* returns.
C24_Terminates == <>(wk = "done")

\* findCircularDependencies has returned for a map in which module 1
\* imports itself and modules 2 and 3 import each other.
C24_Witness ==
  /\ wk = "done"
  /\ DOMAIN wkMap = Names
  /\ 1 \in wkMap[1] /\ 3 \in wkMap[2] /\ 2 \in wkMap[3]
  /\ wkCircular = findCircularDependencies(wkMap)
\* ------------------------------------ analyze: the files of a recent diff
\* repoPath, as the directories from the root down
RepoDir == <<T("workspace"), T("repo")>>

\* path.join(base, rel): the parts of rel are appended, '..' stepping up
RECURSIVE PathJoin(_, _)
PathJoin(base, rel) ==
  IF rel = <<>> THEN base
  ELSE IF Head(rel) = T("..")
    THEN PathJoin(SubSeq(base, 1, Len(base) - 1), Tail(rel))
  ELSE PathJoin(Append(base, Head(rel)), Tail(rel))

\* result.differences.map(d => path.join(repoPath, d.file)): the paths
\* analyze hands to analyzeFile in its changed-files loop
changedFiles(ds) == [i \in DOMAIN ds |-> PathJoin(RepoDir, ds[i].file)]

\* the paths a file segment names in its "diff --git" header, under repoPath
NamedInRepo(s) ==
  {PathJoin(RepoDir, <<PathTok(s.old)>>), PathJoin(RepoDir, <<PathTok(s.new)>>)}

\* C25: for a non-empty diff the files analyze scans are exactly the changed
\* files: every scanned path is repoPath joined with a path the diff names
\* for a changed file, and every file segment with marked lines has its
\* file scanned.
C25_ScansChangedFiles ==
  pd = "parsed" /\ segs # <<>> =>
    /\ Len(changedFiles(differences)) = Len(SegsWithChanges)
    /\ \A i \in DOMAIN differences :
         changedFiles(differences)[i] \in NamedInRepo(SegsWithChanges[i])
\* C26: getRepository removes an existing local directory only after the
\* user chose 'Clone Here': wherever a removal has happened, that choice
\* was made, so Cancel, a dismissed prompt, 'Clone in New Location', no
\* directory selected and a failed pull leave every directory in place.
C26_RemoveOnlyAfterCloneHere ==
  "rm" \in Range(fsOps) => choice = "Clone Here"
\* C27: whenever pullLatestChanges has finished, by return or by error, the
\* checked-out branch is the branch it started on and no temp-* branch is
\* left behind.
C27_BranchRestored ==
  PullDone => onOrig /\ ~tempExists
\* ------------------------------------------ getDiff, one await at a time
\* The text git.diff gives for two commits: empty when they are the same.
DiffOf(from, to) == IF from = to THEN <<>> ELSE <<"diff", from, to>>

\* a step of the try block threw: control goes to the catch block
GdCatch(step) ==
  /\ gd' = "rediff"
  /\ gdFails' = gdFails \cup {step}

\* const diffText = await git.diff([fromCommit, toCommit])
GdDiff ==
  /\ gd = "diff"
  /\ \E ok \in BOOLEAN :
       IF ok THEN /\ gdText' = DiffOf(gdFrom, gdTo)
                  /\ gd' = "showOld" /\ UNCHANGED gdFails
             ELSE GdCatch("diff") /\ UNCHANGED gdText
  /\ UNCHANGED <<gdFrom, gdTo, gdRet, gdView, gdTemp, gdTimer>>

\* const oldContent = await git.show([fromCommit])
GdShowOld ==
  /\ gd = "showOld"
  /\ \E ok \in BOOLEAN :
       IF ok THEN gd' = "showNew" /\ UNCHANGED gdFails
             ELSE GdCatch("show")
  /\ UNCHANGED <<gdFrom, gdTo, gdText, gdRet, gdView, gdTemp, gdTimer>>

\* const newContent = await git.show([toCommit])
GdShowNew ==
  /\ gd = "showNew"
  /\ \E ok \in BOOLEAN :
       IF ok THEN gd' = "applyEdit" /\ UNCHANGED gdFails
             ELSE GdCatch("show")
  /\ UNCHANGED <<gdFrom, gdTo, gdText, gdRet, gdView, gdTemp, gdTimer>>

\* await vscode.workspace.applyEdit(workspaceEdit): the two files are
\* written, or the edit is not applied, or the call throws
GdApplyEdit ==
  /\ gd = "applyEdit"
  /\ \E res \in {"applied", "refused", "throws"} :
       IF res = "throws"
         THEN GdCatch("write") /\ UNCHANGED gdTemp
         ELSE /\ gd' = "vsdiff" /\ UNCHANGED gdFails
              /\ gdTemp' = (res = "applied" \/ gdTemp)
  /\ UNCHANGED <<gdFrom, gdTo, gdText, gdRet, gdView, gdTimer>>

\* await executeCommand('vscode.diff', ...); setTimeout(cleanup, 1000);
\* return diffText
GdVsDiff ==
  /\ gd = "vsdiff"
  /\ \E ok \in BOOLEAN :
       IF ok THEN /\ gdView' = "visual" /\ gdTimer' = TRUE
                  /\ gdRet' = gdText /\ gd' = "ret" /\ UNCHANGED gdFails
             ELSE /\ GdCatch("view")
                  /\ UNCHANGED <<gdView, gdTimer, gdRet>>
  /\ UNCHANGED <<gdFrom, gdTo, gdText, gdTemp>>

\* catch: const diff = await git.diff([fromCommit, toCommit]); an empty
\* diff is returned as '' at once
GdRediff ==
  /\ gd = "rediff"
  /\ \E ok \in BOOLEAN :
       IF ~ok
         THEN /\ gd' = "thrown" /\ gdFails' = gdFails \cup {"rediff"}
              /\ UNCHANGED gdRet
         ELSE /\ UNCHANGED gdFails
              /\ IF DiffOf(gdFrom, gdTo) # <<>>
                   THEN gd' = "openDoc" /\ UNCHANGED gdRet
                   ELSE gd' = "ret" /\ gdRet' = <<>>
  /\ UNCHANGED <<gdFrom, gdTo, gdText, gdView, gdTemp, gdTimer>>

\* const document = await vscode.workspace.openTextDocument({content: diff})
GdOpenDoc ==
  /\ gd = "openDoc"
  /\ \E ok \in BOOLEAN :
       IF ok THEN gd' = "showDoc" /\ UNCHANGED gdFails
             ELSE gd' = "thrown" /\ gdFails' = gdFails \cup {"openDoc"}
  /\ UNCHANGED <<gdFrom, gdTo, gdText, gdRet, gdView, gdTemp, gdTimer>>

\* await vscode.window.showTextDocument(document, ...); return diff || ''
GdShowDoc ==
  /\ gd = "showDoc"
  /\ \E ok \in BOOLEAN :
       IF ok THEN /\ gdView' = "text" /\ gdRet' = DiffOf(gdFrom, gdTo)
                  /\ gd' = "ret" /\ UNCHANGED gdFails
             ELSE /\ gd' = "thrown" /\ gdFails' = gdFails \cup {"showDoc"}
                  /\ UNCHANGED <<gdView, gdRet>>
  /\ UNCHANGED <<gdFrom, gdTo, gdText, gdTemp, gdTimer>>

\* the timer callback: both files are deleted; a failing delete is ignored
GdCleanup ==
  /\ gdTimer
  /\ gdTimer' = FALSE
  /\ \E ok \in BOOLEAN : gdTemp' = (gdTemp /\ ~ok)
  /\ UNCHANGED <<gdFrom, gdTo, gdText, gdRet, gdFails, gdView, gd>>

NextGetDiff ==
  \/ GdDiff \/ GdShowOld \/ GdShowNew \/ GdApplyEdit \/ GdVsDiff
  \/ GdRediff \/ GdOpenDoc \/ GdShowDoc \/ GdCleanup

InitGetDiff ==
  /\ Quiet /\ DiffOff /\ DepsOff /\ SecOff /\ CxOff /\ SaOff /\ UrlOff
  /\ WalkOff /\ ImportsOff
  /\ gdFrom \in Commits /\ gdTo \in Commits
  /\ gdText = "none" /\ gdRet = "none" /\ gdFails = {} /\ gdView = "none"
  /\ gdTemp \in BOOLEAN /\ gdTimer = FALSE /\ gd = "diff"

SpecGetDiff ==
  InitGetDiff /\ [][NextGetDiff /\ UNCHANGED
           <<mainVars, diffVars, depVars, secVars, cxVars, saVars, urlVars,
             wkVars, imVars>>]_vars

\* C28: getDiff returns the textual diff whether or not the visual diff
\* succeeds: once git has produced the diff text, a failure to fetch the
\* commit contents, to write the temp files or to open a view neither makes
\* getDiff fail nor changes the text it returns.
C28_TextDespiteVisualFailure ==
  (gd \in {"ret", "thrown"} /\ gdFails \cap {"diff", "rediff"} = {}) =>
    gd = "ret" /\ gdRet = DiffOf(gdFrom, gdTo)
\* ---------------------------------------------------- analyzeDependencies
\* Source files n.ts lie side by side in the root directory. A file refers
\* to file n by the relative import  import ... from './n'.
\* path.relative(rootPath, file.fsPath) of file n: 'n.ts'
FileKey(n) == <<".ts", n>>
\* the module specifier of a relative import of file n: './n'
Specifier(n) == <<"./", n>>

\* extractImports: match[1] of every import statement, the specifier as
\* written between the quotes
extractImports(content) == {Specifier(n) : n \in content}

\* The loop over the files found:
\* dependencies.set(relativePath, new Set(imports))
BuildDependencies(sources) ==
  LET keys == {FileKey(n) : n \in DOMAIN sources}
      FileOf(k) == CHOOSE n \in DOMAIN sources : FileKey(n) = k
  IN [k \in keys |-> extractImports(sources[FileOf(k)])]

\* One more source file is in the workspace, importing some of the files.
ImAddFile ==
  /\ im = "build"
  /\ \E n \in Names \ DOMAIN imSources, imports \in SUBSET Names :
       imSources' = [m \in DOMAIN imSources \cup {n} |->
                       IF m = n THEN imports ELSE imSources[m]]
  /\ UNCHANGED <<imMap, imResult, im>>

\* analyzeDependencies: the map is built, findCircularDependencies is run
\* and every module is pushed with circular: circularDeps.has(module)
ImAnalyze ==
  /\ im = "build"
  /\ imMap' = BuildDependencies(imSources)
  /\ imResult' = [module \in DOMAIN imMap' |->
                    module \in findCircularDependencies(imMap')]
  /\ im' = "done"
  /\ UNCHANGED imSources

NextImports == ImAddFile \/ ImAnalyze

InitImports ==
  /\ Quiet /\ DiffOff /\ DepsOff /\ SecOff /\ CxOff /\ SaOff /\ UrlOff
  /\ WalkOff /\ GetDiffOff
  /\ imSources = <<>> /\ imMap = <<>> /\ imResult = <<>> /\ im = "build"

SpecImports ==
  InitImports /\ [][NextImports /\ UNCHANGED
           <<mainVars, diffVars, depVars, secVars, cxVars, saVars, urlVars,
             wkVars, gdVars>>]_vars

\* C29: two source files that import each other through relative imports
\* are both reported with circular = true.
C29_MutualImportsCircular ==
  im = "done" =>
    \A a, b \in DOMAIN imSources :
      (a # b /\ b \in imSources[a] /\ a \in imSources[b]) =>
        imResult[FileKey(a)] /\ imResult[FileKey(b)]
\* ------------------------------------- analyzeComplexity: long functions
\* analyzeComplexity on texts long enough to hold a function of more than
\* LongLimit lines, made of function headers, closing braces and other lines.
InitLong ==
  /\ Quiet /\ DiffOff /\ DepsOff /\ SecOff /\ SaOff /\ UrlOff /\ WalkOff
  /\ GetDiffOff /\ ImportsOff
  /\ CxStart(FunctionLines, MaxLongLines)

SpecLong ==
  InitLong /\ [][NextCx /\ UNCHANGED
           <<mainVars, diffVars, depVars, secVars, saVars, urlVars, wkVars,
             gdVars, imVars>>]_vars

\* C30: every suggestion that carries a line number carries the 1-based
\* number of the line it is about; for a long function that is the line of
\* the function's header.
C30_OneBasedLines ==
  cx = "done" =>
    \A k \in 1 .. Len(suggestions) :
      suggestions[k].hasLine => suggestions[k].line = about[k]

==============================================================================
